---- MODULE Spec2Model ----
(***************************************************************************)
(* Model of the block read-recovery engine of dskread (src/sg_dd.c):       *)
(* sg_build_scsi_cdb (command descriptor builder), sg_read_low (one        *)
(* transfer and its classification) and sg_read (the recovery controller). *)
(*                                                                         *)
(* A run is a sequence of sg_read calls on one device context (struct      *)
(* flags_t).  Every device-control call is one step whose response is      *)
(* chosen nondeterministically from DevResponses.                          *)
(***************************************************************************)
EXTENDS Integers, Sequences, FiniteSets, TLC

(***************************************************************************)
(* Result codes.  The SG_LIB_* values are those of sg_lib.h, which         *)
(* sg_dd.c includes; 0, -1 and -2 are written as literals in sg_dd.c.      *)
(***************************************************************************)
SG_LIB_CAT_CLEAN == 0
SG_LIB_SYNTAX_ERROR == 1
SG_LIB_CAT_NOT_READY == 2
SG_LIB_CAT_MEDIUM_HARD == 3
SG_LIB_CAT_ILLEGAL_REQ == 5
SG_LIB_CAT_UNIT_ATTENTION == 6
SG_LIB_CAT_INVALID_OP == 9
SG_LIB_CAT_ABORTED_COMMAND == 11
SG_LIB_CAT_ILLEGAL_REQ_WITH_INFO == 17
SG_LIB_CAT_MEDIUM_HARD_WITH_INFO == 18
SG_LIB_CAT_RECOVERED == 21
SG_LIB_CAT_CONDITION_MET == 25
SG_LIB_CAT_OTHER == 99
RES_OTHER_ERR == -1
RES_ENOMEM == -2

MAX_SCSI_CDBSZ == 16
MAX_UNIT_ATTENTIONS == 10
MAX_ABORTED_CMDS == 256
READ_LONG_DEF_BLK_INC == 8
MIN_READ_LONG_LEN == 32
PDT_MMC == 5

(***************************************************************************)
(* Bounds of the model.                                                    *)
(*  MaxBlocks    largest block count of one sg_read call                   *)
(*  MaxCalls     number of sg_read calls in a run                          *)
(*  MaxCmds      number of SG_IO reads the device answers in a run         *)
(*  MaxLongs     number of extended reads (READ LONG) it answers in a run  *)
(*  UasLeft      what is left of the unit-attention ceiling when the       *)
(*               modelled calls start: the run has absorbed                *)
(*               MAX_UNIT_ATTENTIONS - UasLeft unit attentions before,     *)
(*               each of which changed max_uas alone                       *)
(*  AbortedLeft  the same for the aborted-command ceiling                  *)
(***************************************************************************)
MaxBlocks == 2
MaxCalls == 2
MaxCmds == 3
MaxLongs == 3
UasLeft == 2
AbortedLeft == 2

\* Inputs of the modelled calls.
StartBlocks == {100}
BlockSizes == {16, 64}
CoeLevels == {0, 1, 2}
RetryCounts == {0, 1}
PdtCodes == {0, PDT_MMC}
\* (cdbsz, fua, dpo) of the device context
CdbSettings == {<<10, 0, 0>>, <<6, 1, 0>>, <<8, 0, 0>>}

Min(a, b) == IF a < b THEN a ELSE b
Max(a, b) == IF a > b THEN a ELSE b

(***************************************************************************)
(* 64-bit addresses reported by the device (uint64_t io_addr) are pairs    *)
(* [hi, lo] standing for hi * 2^32 + lo with lo < 2^31: block addresses of *)
(* the request are plain integers below 2^31 (hi = 0).                     *)
(***************************************************************************)
Addr(h, l) == [hi |-> h, lo |-> l]
AddrLtInt(a, n) == a.hi = 0 /\ a.lo < n
AddrGeInt(a, n) == a.hi > 0 \/ a.lo >= n
AddrIsZero(a) == a.hi = 0 /\ a.lo = 0
\* io_addr < UINT_MAX (UINT_MAX = 2^32 - 1 and lo < 2^31)
BelowUintMax(a) == a.hi = 0


(***************************************************************************)
(* Wide integers.  TLC's integers stop below 2^31, so the int64_t          *)
(* start_block and the unsigned int blocks of sg_build_scsi_cdb are        *)
(* sequences of 16-bit limbs, most significant first, holding the bit      *)
(* pattern of the value: four limbs for start_block (two's complement),    *)
(* two for blocks.                                                         *)
(***************************************************************************)
\* the limbs of n, 0 <= n < 2^31
Wide64(n) == <<0, 0, n \div 65536, n % 65536>>
Wide32(n) == <<n \div 65536, n % 65536>>

\* the bytes of w, most significant first, indexed from 0
LimbBytes(w) ==
    [i \in 0..(2 * Len(w) - 1) |->
        IF i % 2 = 0 THEN w[(i \div 2) + 1] \div 256 ELSE w[(i \div 2) + 1] % 256]

\* start_block lies in -65536 .. 2^31 - 1, and its value then
IsSmall(w) ==
    \/ w[1] = 0 /\ w[2] = 0 /\ w[3] < 32768
    \/ w[1] = 65535 /\ w[2] = 65535 /\ w[3] = 65535
SmallValue(w) == IF w[1] = 0 THEN w[3] * 65536 + w[4] ELSE w[4] - 65536

(***************************************************************************)
(* sg_build_scsi_cdb: the command descriptor for a transfer of blocks_     *)
(* blocks at start_block.  The result is [ret, cdb]: ret = 0 on success,   *)
(* 1 on failure; cdb maps the byte offsets 0 .. cdb_sz-1 that memset       *)
(* cleared to the bytes then stored.                                       *)
(***************************************************************************)
rd_opcode == <<8, 40, 168, 136>>
wr_opcode == <<10, 42, 170, 138>>

\* sg_put_unaligned_be16/24/32/64: the n low-order bytes of v, most
\* significant first
\* (sg_put_unaligned_le: a variant that stores the least significant first)
sg_put_unaligned_le(v, n) == [i \in 0..(n - 1) |-> LimbBytes(v)[2 * Len(v) - 1 - i]]
sg_put_unaligned_be(v, n) == [i \in 0..(n - 1) |-> LimbBytes(v)[2 * Len(v) - n + i]]

\* cdb with the bytes f (a function on 0..n-1) stored from offset off
PutBytes(cdb, off, f, n) ==
    [i \in DOMAIN cdb |-> IF i >= off /\ i < off + n THEN f[i - off] ELSE cdb[i]]

\* write_true ? wr_opcode[sz_ind] : rd_opcode[sz_ind]
\* (CdbOpcodeWrite: a variant that takes the write opcode)
CdbOpcodeWrite(sz_ind, write_true) == wr_opcode[sz_ind + 1]
CdbOpcode(sz_ind, write_true) ==
    IF write_true # 0 THEN wr_opcode[sz_ind + 1] ELSE rd_opcode[sz_ind + 1]

\* 0x1fffff & start_block
Mask21(w) == <<w[3] % 32, w[4]>>

\* blocks > 256
\* (TooManyFor6Strict: a variant that also refuses 256)
TooManyFor6Strict(b) == b[1] > 0 \/ b[2] >= 256
TooManyFor6(b) == b[1] > 0 \/ b[2] > 256

\* (start_block + blocks - 1) & (~0x1fffff), for blocks <= 256
BeyondFor6(w, b) ==
    IF IsSmall(w)
    THEN SmallValue(w) + b[2] - 1 < 0 \/ SmallValue(w) + b[2] - 1 >= 2097152
    ELSE TRUE

\* cdbp[4] = (256 == blocks) ? 0 : (unsigned char)blocks
CountByte6(b) == IF b = <<0, 256>> THEN 0 ELSE b[2] % 256

\* dpo || fua, for 6 byte commands
\* (FlagsRefusedNever: a variant that lets the flags pass)
FlagsRefusedNever(fua_, dpo_) == FALSE
FlagsRefused(fua_, dpo_) == dpo_ # 0 \/ fua_ # 0

\* cdbp[1] after memset and the two |=
\* (FlagByteSwapped: a variant with the two bits exchanged)
FlagByteSwapped(fua_, dpo_) == (IF dpo_ # 0 THEN 8 ELSE 0) + (IF fua_ # 0 THEN 16 ELSE 0)
FlagByte(fua_, dpo_) == (IF dpo_ # 0 THEN 16 ELSE 0) + (IF fua_ # 0 THEN 8 ELSE 0)

\* the value sg_build_scsi_cdb returns: 0, or 1 for a build failure
sg_build_scsi_cdb_ret(cdb_sz, blocks_, start_block, fua_, dpo_) ==
    CASE cdb_sz = 6 ->
           IF TooManyFor6(blocks_) THEN 1
           ELSE IF BeyondFor6(start_block, blocks_) THEN 1
           ELSE IF FlagsRefused(fua_, dpo_) THEN 1
           ELSE 0
      [] cdb_sz = 10 -> IF blocks_[1] # 0 THEN 1 ELSE 0
      [] cdb_sz = 12 -> 0
      [] cdb_sz = 16 -> 0
      [] OTHER -> 1

\* the bytes it leaves in cdbp[0 .. cdb_sz-1]
sg_build_scsi_cdb_bytes(cdb_sz, blocks_, start_block, write_true, fua_, dpo_) ==
    LET zeroed == [i \in 0..(cdb_sz - 1) |-> 0]
        flagged == IF cdb_sz >= 2
                   THEN [zeroed EXCEPT ![1] = FlagByte(fua_, dpo_)]
                   ELSE zeroed
        op(k) == [i \in 0..0 |-> CdbOpcode(k, write_true)]
    IN  CASE cdb_sz = 6 ->
              LET c1 == PutBytes(flagged, 0, op(0), 1)
                  c2 == PutBytes(c1, 1, sg_put_unaligned_be(Mask21(start_block), 3), 3)
              IN  [c2 EXCEPT ![4] = CountByte6(blocks_)]
          [] cdb_sz = 10 ->
              LET c1 == PutBytes(flagged, 0, op(1), 1)
                  c2 == PutBytes(c1, 2, sg_put_unaligned_be(start_block, 4), 4)
              IN  PutBytes(c2, 7, sg_put_unaligned_be(blocks_, 2), 2)
          [] cdb_sz = 12 ->
              LET c1 == PutBytes(flagged, 0, op(2), 1)
                  c2 == PutBytes(c1, 2, sg_put_unaligned_be(start_block, 4), 4)
              IN  PutBytes(c2, 6, sg_put_unaligned_be(blocks_, 4), 4)
          [] cdb_sz = 16 ->
              LET c1 == PutBytes(flagged, 0, op(3), 1)
                  c2 == PutBytes(c1, 2, sg_put_unaligned_be(start_block, 8), 8)
              IN  PutBytes(c2, 10, sg_put_unaligned_be(blocks_, 4), 4)
          [] OTHER -> flagged

sg_build_scsi_cdb(cdb_sz, blocks_, start_block, write_true, fua_, dpo_) ==
    [ret |-> sg_build_scsi_cdb_ret(cdb_sz, blocks_, start_block, fua_, dpo_),
     cdb |-> sg_build_scsi_cdb_bytes(cdb_sz, blocks_, start_block, write_true, fua_, dpo_)]

(***************************************************************************)
(* The device's answer to one SG_IO read.  io is the ioctl outcome once    *)
(* the EINTR/EAGAIN/EBUSY loop has ended; cat is sg_err_category3's        *)
(* category; info is the sense information field and info_valid its VALID  *)
(* bit; asc64 says the sense normalises to asc 0x64, ascq 0; ili is the    *)
(* incorrect-length indicator (sg_read_low reads info of an ILLEGAL         *)
(* REQUEST only when asc64 and ili are set).                               *)
(***************************************************************************)
Addr0 == Addr(0, 0)

InfoAddrs(lbav, n) ==
    {Addr0, Addr(0, lbav + n), Addr(1, 0)} \cup {Addr(0, l) : l \in lbav..(lbav + n - 1)}

DevResp(io_, cat_, valid_, info_, asc64_, ili_) ==
    [io |-> io_, cat |-> cat_, info_valid |-> valid_, info |-> info_,
     asc64 |-> asc64_, ili |-> ili_]

PlainCats == {SG_LIB_CAT_CLEAN, SG_LIB_CAT_CONDITION_MET, SG_LIB_CAT_ABORTED_COMMAND,
              SG_LIB_CAT_UNIT_ATTENTION, SG_LIB_CAT_NOT_READY, SG_LIB_CAT_OTHER}

DevResponses(lbav, n) ==
    {DevResp("ENOMEM", SG_LIB_CAT_CLEAN, FALSE, Addr0, FALSE, FALSE),
     DevResp("EIO", SG_LIB_CAT_CLEAN, FALSE, Addr0, FALSE, FALSE)}
    \cup {DevResp("ok", c, FALSE, Addr0, FALSE, FALSE) : c \in PlainCats}
    \cup {DevResp("ok", SG_LIB_CAT_RECOVERED, v, a, FALSE, FALSE) :
            v \in BOOLEAN, a \in {Addr0, Addr(1, 0)}}
    \cup {DevResp("ok", SG_LIB_CAT_MEDIUM_HARD, v, a, FALSE, FALSE) :
            v \in BOOLEAN, a \in InfoAddrs(lbav, n)}
    \cup {DevResp("ok", SG_LIB_CAT_ILLEGAL_REQ, FALSE, Addr0, s, FALSE) : s \in BOOLEAN}
    \cup {DevResp("ok", SG_LIB_CAT_ILLEGAL_REQ, FALSE, a, TRUE, TRUE) :
            a \in InfoAddrs(lbav, n)}

(***************************************************************************)
(* sg_read_low: one transfer of `blocks` blocks at from_block under the    *)
(* context ifp_, answered by d.  The result is [res, io_addr, unrec,       *)
(* recov, issued]: the return value, *io_addrp afterwards, the increments  *)
(* of unrecovered_errs and recovered_errs, and whether the ioctl was       *)
(* issued.                                                                 *)
(***************************************************************************)
LowRes(res_, addr_, unrec_, recov_, issued_) ==
    [res |-> res_, io_addr |-> addr_, unrec |-> unrec_, recov |-> recov_,
     issued |-> issued_]

\* the return value when the ioctl fails: -2 for ENOMEM, else -1
\* (IoctlResultAll: a variant that does not tell ENOMEM apart)
IoctlResultAll(io_) == RES_OTHER_ERR
IoctlResult(io_) == IF io_ = "ENOMEM" THEN RES_ENOMEM ELSE RES_OTHER_ERR

\* case SG_LIB_CAT_RECOVERED: ++recovered_errs, the information field goes
\* to *io_addrp, and the function ends with return 0
\* (LowRecoveredAsError: a variant that returns the category instead)
LowRecoveredAsError(addr_) == LowRes(SG_LIB_CAT_RECOVERED, addr_, 0, 1, TRUE)
LowRecovered(addr_) == LowRes(0, addr_, 0, 1, TRUE)

\* default: ++unrecovered_errs; return res
\* (LowDefaultUncounted: a variant that does not count the error)
LowDefaultUncounted(res_, addr_) == LowRes(res_, addr_, 0, 0, TRUE)
LowDefault(res_, addr_) == LowRes(res_, addr_, 1, 0, TRUE)

\* ++unrecovered_errs and the return of a medium error category
\* (LowMediumUncounted: a variant that does not count the error)
LowMediumUncounted(res_, addr_) == LowRes(res_, addr_, 0, 0, TRUE)
LowMedium(res_, addr_) == LowRes(res_, addr_, 1, 0, TRUE)

sg_read_low(d, ifp_, blocks_, from_block_, io_addr_) ==
    IF sg_build_scsi_cdb_ret(ifp_.cdbsz, Wide32(blocks_), Wide64(from_block_),
                             ifp_.fua, ifp_.dpo) # 0
    THEN LowRes(SG_LIB_SYNTAX_ERROR, io_addr_, 0, 0, FALSE)
    ELSE IF d.io # "ok" THEN LowRes(IoctlResult(d.io), io_addr_, 0, 0, TRUE)
    ELSE CASE d.cat \in {SG_LIB_CAT_CLEAN, SG_LIB_CAT_CONDITION_MET} ->
                LowRes(0, io_addr_, 0, 0, TRUE)
           [] d.cat = SG_LIB_CAT_RECOVERED ->
                LowRecovered(d.info)
           [] d.cat \in {SG_LIB_CAT_ABORTED_COMMAND, SG_LIB_CAT_UNIT_ATTENTION} ->
                LowRes(d.cat, io_addr_, 0, 0, TRUE)
           [] d.cat = SG_LIB_CAT_MEDIUM_HARD ->
                IF d.info_valid \/ (ifp_.pdt = PDT_MMC /\ ~AddrIsZero(d.info))
                THEN LowMedium(SG_LIB_CAT_MEDIUM_HARD_WITH_INFO, d.info)
                ELSE LowMedium(SG_LIB_CAT_MEDIUM_HARD, d.info)
           [] d.cat = SG_LIB_CAT_NOT_READY ->
                LowRes(d.cat, io_addr_, 1, 0, TRUE)
           [] d.cat = SG_LIB_CAT_ILLEGAL_REQ /\ ifp_.pdt = PDT_MMC /\ d.asc64 ->
                IF d.ili
                THEN IF ~AddrIsZero(d.info)
                     THEN LowMedium(SG_LIB_CAT_MEDIUM_HARD_WITH_INFO, d.info)
                     ELSE LowMedium(SG_LIB_CAT_MEDIUM_HARD, d.info)
                ELSE LowMedium(SG_LIB_CAT_MEDIUM_HARD, io_addr_)
           [] OTHER ->
                LowDefault(d.cat, io_addr_)


(***************************************************************************)
(* State.                                                                  *)
(*  process-wide: max_uas, max_aborted, recovered_errs, unrecovered_errs,  *)
(*                read_longs, num_retries, read_long_blk_inc               *)
(*  ifp:          the device context (struct flags_t) sg_read is given     *)
(*  one call:     its arguments blocks, from_block, bs; its locals         *)
(*                xferred, blks, lba, bp (byte offset into buff),          *)
(*                retries_tmp, ret, io_addr, nl; the caller's *blks_readp  *)
(*                (blks_read, and blks_written once sg_read stored to it); *)
(*                the value returned (result); the destination buffer buff *)
(*                (one tag per block) and pc, the place in sg_read         *)
(*  history:      calls, nXfer (transfers this call), wrHi (highest byte   *)
(*                offset of buff handed out for writing), the values at    *)
(*                the start of the call (ifp0, uas0, unrec0, nretr0, rl0), *)
(*                nUaRep (repeats after unit attention / aborted command), *)
(*                allUA, medE and pure (the device has behaved as a disk   *)
(*                whose only fault is the bad block in medE), okLong       *)
(*                (blocks whose extended read succeeded), last_io and      *)
(*                last_res (the ioctl outcome and the sg_read_low result   *)
(*                of the call's last transfer), err_lba (the error LBA     *)
(*                that transfer reported with a medium error, else 0),     *)
(*                cmds and longs (SG_IO reads and extended reads answered  *)
(*                in the run), long_len (the length asked of the call's    *)
(*                last extended read)                                      *)
(*  extended read: offset, the local sg_ll_read_long10 stores the length   *)
(*                difference to                                            *)
(*  built:        the last command descriptor sg_read_low built, with the  *)
(*                arguments it was built from (used by SpecCdb, which      *)
(*                covers the builder over the whole width of its           *)
(*                arguments)                                               *)
(*  rvd:          the locals of read_verify_device in its pass loop, with  *)
(*                the arguments and result of its last call of sg_read     *)
(*                (used by SpecPass)                                       *)
(*  sizes:        the block sizes the caller passes as bs in the run       *)
(***************************************************************************)
VARIABLES max_uas, max_aborted, recovered_errs, unrecovered_errs, read_longs,
          num_retries, read_long_blk_inc, ifp,
          pc, blocks, from_block, bs, xferred, blks, lba, bp, retries_tmp, ret,
          io_addr, nl, blks_read, blks_written, result, buff,
          calls, nXfer, wrHi, ifp0, uas0, unrec0, nretr0, rl0, nUaRep, allUA,
          medE, pure, okLong, last_io, last_res, err_lba, cmds,
          longs, long_len, offset,
          built, rvd, sizes

vars == <<max_uas, max_aborted, recovered_errs, unrecovered_errs, read_longs,
          num_retries, read_long_blk_inc, ifp,
          pc, blocks, from_block, bs, xferred, blks, lba, bp, retries_tmp, ret,
          io_addr, nl, blks_read, blks_written, result, buff,
          calls, nXfer, wrHi, ifp0, uas0, unrec0, nretr0, rl0, nUaRep, allUA,
          medE, pure, okLong, last_io, last_res, err_lba, cmds,
          longs, long_len, offset, built, rvd, sizes>>

params == <<blocks, from_block, bs>>
callHist == <<calls, ifp0, uas0, unrec0, nretr0, rl0>>
cursor == <<xferred, blks, lba, bp, nl>>
longHist == <<longs, long_len, offset>>

\* no descriptor built yet
NoBuild == [caller |-> "none"]

\* read_verify_device has not been entered
NoDevice == [pc |-> "none"]

Contexts ==
    {[cdbsz |-> s[1], fua |-> s[2], dpo |-> s[3], coe |-> c, pdt |-> p, retries |-> r] :
        s \in CdbSettings, c \in CoeLevels, p \in PdtCodes, r \in RetryCounts}

\* c0 is where the run's tally of answered commands starts: 0, or -1 for a
\* run in which the device answers any number of commands and no history of
\* them is kept
AtEntry(c0) ==
    /\ max_uas = Min(MAX_UNIT_ATTENTIONS, UasLeft)
    /\ max_aborted = Min(MAX_ABORTED_CMDS, AbortedLeft)
    /\ recovered_errs = 0
    /\ unrecovered_errs = 0
    /\ read_longs = 0
    /\ num_retries = 0
    /\ read_long_blk_inc = READ_LONG_DEF_BLK_INC
    /\ ifp \in Contexts
    /\ pc = "idle"
    /\ blocks = 0 /\ from_block = 0 /\ bs = 0
    /\ xferred = 0 /\ blks = 0 /\ lba = 0 /\ bp = 0
    /\ retries_tmp = ifp.retries
    /\ ret = 0
    /\ io_addr = Addr0
    /\ nl = 0
    /\ blks_read = 0 /\ blks_written = FALSE
    /\ result = 0
    /\ buff = << >>
    /\ calls = 0 /\ nXfer = 0 /\ wrHi = 0
    /\ ifp0 = ifp
    /\ uas0 = max_uas /\ unrec0 = 0 /\ nretr0 = 0 /\ rl0 = 0
    /\ nUaRep = 0
    /\ allUA = TRUE
    /\ medE = {} /\ pure = TRUE
    /\ okLong = {}
    /\ last_io = "none"
    /\ last_res = 0
    /\ err_lba = Addr0
    /\ cmds = c0
    /\ longs = c0 /\ long_len = 0 /\ offset = 0
    /\ built = NoBuild

InitWith(c0) == AtEntry(c0) /\ rvd = NoDevice /\ sizes = BlockSizes

Init == InitWith(0)

\* the calls of a run: MaxCalls of them, or a single one, followed to its
\* end, in a run without history
CallLimit == IF cmds >= 0 THEN MaxCalls ELSE 1

\* one more on a tally of the run or of the call, and a new value of a
\* history variable, when the history is kept
Tally(n) == IF cmds >= 0 THEN n + 1 ELSE n
Noted(new, old) == IF cmds >= 0 THEN new ELSE old

(***************************************************************************)
(* Pieces of sg_read.                                                      *)
(***************************************************************************)
\* b with the blocks lying in the byte range [off, off + len) set to tag
Fill(b, bsv, off, len, tag) ==
    [i \in DOMAIN b |-> IF i * bsv >= off /\ i * bsv < off + len THEN tag ELSE b[i]]

\* case 0: *blks_readp = xferred + blks
\* (CleanBlksReadShort: a variant that leaves blks out)
CleanBlksReadShort(xf, n) == xf
CleanBlksRead(xf, n) == xf + n

\* if (--max_uas > 0) and if (--max_aborted > 0)
\* (CeilingKept: a variant in which the ceiling is tested but not lowered)
CeilingKept(m) == m
CeilingNext(m) == m - 1
UaContinue(m) == m - 1 > 0
AbortedContinue(m) == m - 1 > 0

\* retries_tmp = ifp->retries, at the start of every sg_read call
\* (RetriesCarried: a variant that keeps what the previous call left)
RetriesCarried(f) == retries_tmp
RetriesStart(f) == f.retries

\* if (unrecovered_errs > 0) --unrecovered_errs
\* (RetryUnrecKept: a variant without the decrement)
RetryUnrecKept(u) == u
RetryUnrec(u) == IF u > 0 THEN u - 1 ELSE u

\* ++num_retries (with --retries_tmp)
\* (CountRetryNone: a variant without the increment)
CountRetryNone(nr) == nr
CountRetry(nr) == nr + 1

\* !((io_addr < lba) || (io_addr >= lba + blks))
\* (InRangeClosed: a variant that takes lba + blks as inside)
InRangeClosed(a, lbav, n) == ~(AddrLtInt(a, lbav) \/ AddrGeInt(a, lbav + n + 1))
InRange(a, lbav, n) == ~(AddrLtInt(a, lbav) \/ AddrGeInt(a, lbav + n))

\* blks = (int)(io_addr - lba)
\* (PartialBlksOver: a variant that includes the failing block)
PartialBlksOver(a, lbav) == a.lo - lbav + 1
PartialBlks(a, lbav) == a.lo - lbav

\* (0 != ifp->pdt) || (ifp->coe < 2)
\* (UseZerosNever: a variant that always tries the extended read)
UseZerosNever(pdt_, coe_) == FALSE
UseZeros(pdt_, coe_) == pdt_ # 0 \/ coe_ < 2

\* err_out: memset(bp, 0, bs * blks); *blks_readp = xferred + blks;
\* return may_coe ? 0 : ret
\* (ErrOutFillLenOver, ErrOutBlksReadOver: variants that are one block off)
ErrOutFillLenOver(bsv, n) == bsv * (n + 1)
ErrOutFillLen(bsv, n) == bsv * n
ErrOutBlksReadOver(xf, n) == xf + n + 1
ErrOutBlksRead(xf, n) == xf + n
\* (ErrOutResultZero: a variant that always reports success;
\*  ErrOutResultKept: a variant that never does)
ErrOutResultZero(mc, retv) == 0
ErrOutResultKept(mc, retv) == retv
ErrOutResult(mc, retv) == IF mc THEN 0 ELSE retv

\* the extended read: bs + read_long_blk_inc, nl = bs + read_long_blk_inc - offset,
\* (nl < 32) || (nl > bs * 2)
\* (ReadLongLenDefault: a variant that always starts from the default increment)
ReadLongLenDefault(bsv, inc) == bsv + READ_LONG_DEF_BLK_INC
ReadLongLen(bsv, inc) == bsv + inc
\* read_longs++ after an extended read that returned 0
\* (ReadLongsSame: a variant without the increment)
ReadLongsSame(rl) == rl
ReadLongsNext(rl) == rl + 1
AdjustedLen(bsv, inc, off) == bsv + inc - off
LenUnexpected(n, bsv) == n < MIN_READ_LONG_LEN \/ n > bsv * 2

\* the buffer and the highest offset written once the transfer of n blocks to
\* bp has been answered: clean data, or undefined contents after a failure
\* (TargetBufNone: a variant in which the transfer delivers nothing)
TargetBufNone(d, r, n) == buff
TargetBuf(d, r, n) ==
    IF ~r.issued \/ d.io # "ok" THEN buff
    ELSE IF r.res = 0 THEN Fill(buff, bs, bp, bs * n, "data")
    ELSE Fill(buff, bs, bp, bs * n, "part")
TargetHi(r, n) == IF r.issued THEN Max(wrHi, bp + bs * n) ELSE wrHi

\* history of one answered transfer of n blocks at lba
Hist(d, r, n) ==
    LET covers == \E e \in medE : e >= lba /\ e < lba + n
        clean == r.issued /\ d.io = "ok" /\ d.cat = SG_LIB_CAT_CLEAN
        bad == /\ r.issued /\ d.io = "ok" /\ d.cat = SG_LIB_CAT_MEDIUM_HARD
               /\ d.info_valid
               /\ InRange(d.info, lba, n)
               /\ medE \subseteq {d.info.lo}
    IN  /\ UNCHANGED longHist
        /\ IF cmds >= 0
           THEN /\ nXfer' = IF r.issued THEN nXfer + 1 ELSE nXfer
                /\ last_io' = IF r.issued THEN d.io ELSE "none"
                /\ last_res' = r.res
                /\ err_lba' = IF r.res = SG_LIB_CAT_MEDIUM_HARD_WITH_INFO
                              THEN r.io_addr ELSE Addr0
                /\ allUA' = (allUA /\ r.res = SG_LIB_CAT_UNIT_ATTENTION)
                /\ cmds' = IF r.issued THEN cmds + 1 ELSE cmds
                /\ medE' = IF pure /\ bad THEN {d.info.lo}
                           ELSE IF pure /\ clean /\ ~covers THEN medE
                           ELSE {}
                /\ pure' = (pure /\ ((clean /\ ~covers) \/ bad))
           ELSE UNCHANGED <<nXfer, last_io, last_res, err_lba, allUA, cmds, medE, pure>>

\* io_addr is set to 0 at the top of every iteration of the loop and is gone
\* when sg_read returns
IoAddrNext(a) == IF pc' \in {"xfer", "done"} THEN Addr0 ELSE a

\* return res, leaving *blks_readp alone
Return(res_, b, h) ==
    /\ pc' = "done"
    /\ result' = res_
    /\ buff' = b
    /\ wrHi' = h
    /\ UNCHANGED <<blks_read, blks_written, cursor>>

\* continue: the next iteration repeats the transfer of the same sub-range
Repeat(b, h) ==
    /\ pc' = "xfer"
    /\ buff' = b
    /\ wrHi' = h
    /\ UNCHANGED <<result, blks_read, blks_written, cursor>>

\* goto err_out with blks = n
err_out(coe_, retv, mc, n, b, h) ==
    /\ pc' = "done"
    /\ UNCHANGED cursor
    /\ IF coe_ # 0
       THEN /\ buff' = Fill(b, bs, bp, ErrOutFillLen(bs, n), "zero")
            /\ wrHi' = Max(h, bp + ErrOutFillLen(bs, n))
            /\ blks_read' = ErrOutBlksRead(xferred, n)
            /\ blks_written' = TRUE
            /\ result' = ErrOutResult(mc, retv)
       ELSE /\ buff' = b
            /\ wrHi' = h
            /\ UNCHANGED <<blks_read, blks_written>>
            /\ result' = retv

\* ++xferred; bp += bs; ++lba; then the loop's blks = blocks - xferred and its
\* test, with xf, bpv, lbav the values before the increments
LoopEnd(xf, bpv, lbav, n, b, h) ==
    /\ xferred' = xf + 1
    /\ bp' = bpv + bs
    /\ lba' = lbav + 1
    /\ buff' = b
    /\ wrHi' = h
    /\ nl' = n
    /\ blks' = blocks - (xf + 1)
    /\ IF blocks - (xf + 1) > 0
       THEN /\ pc' = "xfer"
            /\ UNCHANGED <<result, blks_read, blks_written>>
       ELSE /\ pc' = "done"
            /\ blks_read' = xf + 1
            /\ blks_written' = TRUE
            /\ result' = 0

\* xferred += blks
\* (XferredPlusNone: a variant that does not count the blocks read again)
XferredPlusNone(xf, n) == xf
XferredPlus(xf, n) == xf + n

\* the code after the blocks before the error LBA are in (n of them, read
\* into b): xferred += blks and what follows up to the extended read
AfterPartial(coe_, retv, a, n, b, h) ==
    IF coe_ = 0
    THEN /\ pc' = "done"
         /\ xferred' = XferredPlus(xferred, n)
         /\ blks' = n
         /\ blks_read' = XferredPlus(xferred, n)
         /\ blks_written' = TRUE
         /\ result' = retv
         /\ buff' = b
         /\ wrHi' = h
         /\ UNCHANGED <<lba, bp, nl>>
    ELSE IF bs < MIN_READ_LONG_LEN
    THEN /\ pc' = "done"
         /\ xferred' = XferredPlus(xferred, n)
         /\ blks' = n
         /\ result' = RES_OTHER_ERR
         /\ buff' = b
         /\ wrHi' = h
         /\ UNCHANGED <<lba, bp, nl, blks_read, blks_written>>
    ELSE IF UseZeros(ifp.pdt, coe_) \/ ~BelowUintMax(a)
    THEN LoopEnd(XferredPlus(xferred, n), bp + n * bs, lba + n, nl,
                 Fill(b, bs, bp + n * bs, bs, "zero"), Max(h, bp + n * bs + bs))
    ELSE /\ pc' = "long1"
         /\ xferred' = XferredPlus(xferred, n)
         /\ blks' = n
         /\ bp' = bp + n * bs
         /\ lba' = lba + n
         /\ buff' = b
         /\ wrHi' = h
         /\ UNCHANGED <<nl, result, blks_read, blks_written>>


(***************************************************************************)
(* sg_read is called: the caller (read_verify_device) has set its          *)
(* blks_readp variable to 0.  With no block to read the loop body never    *)
(* runs and sg_read stores xferred = 0 and returns 0.                      *)
(***************************************************************************)
sg_read_call ==
    /\ pc \in {"idle", "done"}
    /\ calls < CallLimit
    /\ \E n \in 0..MaxBlocks, fb \in StartBlocks, sz \in sizes :
        /\ blocks' = n
        /\ from_block' = fb
        /\ bs' = sz
        /\ blks' = n
        /\ lba' = fb
        /\ buff' = [i \in 0..(n - 1) |-> "stale"]
        /\ IF n > 0
           THEN pc' = "xfer" /\ blks_written' = FALSE
           ELSE pc' = "done" /\ blks_written' = TRUE
    /\ retries_tmp' = RetriesStart(ifp)
    /\ xferred' = 0
    /\ bp' = 0
    /\ ret' = 0
    /\ io_addr' = Addr0
    /\ nl' = 0
    /\ blks_read' = 0
    /\ result' = 0
    /\ calls' = calls + 1
    /\ nXfer' = 0
    /\ wrHi' = 0
    /\ ifp0' = Noted(ifp, ifp0)
    /\ uas0' = Noted(max_uas, uas0)
    /\ unrec0' = Noted(unrecovered_errs, unrec0)
    /\ nretr0' = Noted(num_retries, nretr0)
    /\ rl0' = Noted(read_longs, rl0)
    /\ nUaRep' = 0
    /\ allUA' = TRUE
    /\ medE' = {}
    /\ pure' = TRUE
    /\ okLong' = {}
    /\ last_io' = "none"
    /\ last_res' = 0
    /\ err_lba' = Addr0
    /\ long_len' = 0 /\ offset' = 0
    /\ UNCHANGED longs
    /\ UNCHANGED <<max_uas, max_aborted, recovered_errs, unrecovered_errs, read_longs,
                   num_retries, read_long_blk_inc, ifp, cmds>>
    /\ UNCHANGED <<built, rvd, sizes>>

(***************************************************************************)
(* The first transfer of the remaining sub-range [lba, lba + blks) and the *)
(* switch on its result, one action per case.                              *)
(***************************************************************************)
\* case 0
ReadClean ==
    /\ pc = "xfer"
    /\ cmds < MaxCmds
    /\ \E d \in DevResponses(lba, blks) :
        LET r == sg_read_low(d, ifp, blks, lba, Addr0)
        IN  /\ r.res = 0
            /\ Hist(d, r, blks)
            /\ recovered_errs' = recovered_errs + r.recov
            /\ pc' = "done"
            /\ result' = 0
            /\ blks_read' = CleanBlksRead(xferred, blks)
            /\ blks_written' = TRUE
            /\ buff' = TargetBuf(d, r, blks)
            /\ wrHi' = TargetHi(r, blks)
            /\ io_addr' = IoAddrNext(r.io_addr)
    /\ UNCHANGED <<max_uas, max_aborted, unrecovered_errs, read_longs, num_retries,
                   read_long_blk_inc, ifp, retries_tmp, ret, cursor, params, callHist,
                   nUaRep, okLong>>
    /\ UNCHANGED <<built, rvd, sizes>>

\* case -2 (ENOMEM): return res
ReadEnomem ==
    /\ pc = "xfer"
    /\ cmds < MaxCmds
    /\ \E d \in DevResponses(lba, blks) :
        LET r == sg_read_low(d, ifp, blks, lba, Addr0)
        IN  /\ r.res = RES_ENOMEM
            /\ Hist(d, r, blks)
            /\ unrecovered_errs' = unrecovered_errs + r.unrec
            /\ Return(r.res, TargetBuf(d, r, blks), TargetHi(r, blks))
            /\ io_addr' = IoAddrNext(r.io_addr)
    /\ UNCHANGED <<max_uas, max_aborted, recovered_errs, read_longs, num_retries,
                   read_long_blk_inc, ifp, retries_tmp, ret, params, callHist,
                   nUaRep, okLong>>
    /\ UNCHANGED <<built, rvd, sizes>>

\* case SG_LIB_CAT_NOT_READY: return res
ReadNotReady ==
    /\ pc = "xfer"
    /\ cmds < MaxCmds
    /\ \E d \in DevResponses(lba, blks) :
        LET r == sg_read_low(d, ifp, blks, lba, Addr0)
        IN  /\ r.res = SG_LIB_CAT_NOT_READY
            /\ Hist(d, r, blks)
            /\ unrecovered_errs' = unrecovered_errs + r.unrec
            /\ Return(r.res, TargetBuf(d, r, blks), TargetHi(r, blks))
            /\ io_addr' = IoAddrNext(r.io_addr)
    /\ UNCHANGED <<max_uas, max_aborted, recovered_errs, read_longs, num_retries,
                   read_long_blk_inc, ifp, retries_tmp, ret, params, callHist,
                   nUaRep, okLong>>
    /\ UNCHANGED <<built, rvd, sizes>>

\* case SG_LIB_CAT_ABORTED_COMMAND
ReadAborted ==
    /\ pc = "xfer"
    /\ cmds < MaxCmds
    /\ \E d \in DevResponses(lba, blks) :
        LET r == sg_read_low(d, ifp, blks, lba, Addr0)
        IN  /\ r.res = SG_LIB_CAT_ABORTED_COMMAND
            /\ Hist(d, r, blks)
            /\ max_aborted' = CeilingNext(max_aborted)
            /\ IF AbortedContinue(max_aborted)
               THEN /\ Repeat(TargetBuf(d, r, blks), TargetHi(r, blks))
                    /\ nUaRep' = Tally(nUaRep)
               ELSE /\ Return(r.res, TargetBuf(d, r, blks), TargetHi(r, blks))
                    /\ nUaRep' = nUaRep
            /\ io_addr' = IoAddrNext(r.io_addr)
    /\ UNCHANGED <<max_uas, recovered_errs, unrecovered_errs, read_longs, num_retries,
                   read_long_blk_inc, ifp, retries_tmp, ret, params, callHist, okLong>>
    /\ UNCHANGED <<built, rvd, sizes>>

\* case SG_LIB_CAT_UNIT_ATTENTION
ReadUnitAttention ==
    /\ pc = "xfer"
    /\ cmds < MaxCmds
    /\ \E d \in DevResponses(lba, blks) :
        LET r == sg_read_low(d, ifp, blks, lba, Addr0)
        IN  /\ r.res = SG_LIB_CAT_UNIT_ATTENTION
            /\ Hist(d, r, blks)
            /\ max_uas' = CeilingNext(max_uas)
            /\ IF UaContinue(max_uas)
               THEN /\ Repeat(TargetBuf(d, r, blks), TargetHi(r, blks))
                    /\ nUaRep' = Tally(nUaRep)
               ELSE /\ Return(r.res, TargetBuf(d, r, blks), TargetHi(r, blks))
                    /\ nUaRep' = nUaRep
            /\ io_addr' = IoAddrNext(r.io_addr)
    /\ UNCHANGED <<max_aborted, recovered_errs, unrecovered_errs, read_longs, num_retries,
                   read_long_blk_inc, ifp, retries_tmp, ret, params, callHist, okLong>>
    /\ UNCHANGED <<built, rvd, sizes>>

\* case SG_LIB_CAT_MEDIUM_HARD_WITH_INFO with retries left: repeat
ReadMediumInfoRetry ==
    /\ pc = "xfer"
    /\ cmds < MaxCmds
    /\ retries_tmp > 0
    /\ \E d \in DevResponses(lba, blks) :
        LET r == sg_read_low(d, ifp, blks, lba, Addr0)
        IN  /\ r.res = SG_LIB_CAT_MEDIUM_HARD_WITH_INFO
            /\ Hist(d, r, blks)
            /\ unrecovered_errs' = RetryUnrec(unrecovered_errs + r.unrec)
            /\ Repeat(TargetBuf(d, r, blks), TargetHi(r, blks))
            /\ io_addr' = IoAddrNext(r.io_addr)
    /\ retries_tmp' = retries_tmp - 1
    /\ num_retries' = CountRetry(num_retries)
    /\ ret' = SG_LIB_CAT_MEDIUM_HARD
    /\ UNCHANGED <<max_uas, max_aborted, recovered_errs, read_longs, read_long_blk_inc,
                   ifp, params, callHist, nUaRep, okLong>>
    /\ UNCHANGED <<built, rvd, sizes>>

\* case SG_LIB_CAT_MEDIUM_HARD_WITH_INFO, no retry left, and the error LBA is
\* not in [lba, lba + blks): may_coe = true; goto err_out
ReadMediumInfoRange ==
    /\ pc = "xfer"
    /\ cmds < MaxCmds
    /\ retries_tmp <= 0
    /\ \E d \in DevResponses(lba, blks) :
        LET r == sg_read_low(d, ifp, blks, lba, Addr0)
        IN  /\ r.res = SG_LIB_CAT_MEDIUM_HARD_WITH_INFO
            /\ ~InRange(r.io_addr, lba, blks)
            /\ Hist(d, r, blks)
            /\ unrecovered_errs' = unrecovered_errs + r.unrec
            /\ err_out(ifp.coe, SG_LIB_CAT_MEDIUM_HARD, TRUE, blks,
                       TargetBuf(d, r, blks), TargetHi(r, blks))
            /\ io_addr' = IoAddrNext(r.io_addr)
    /\ ret' = SG_LIB_CAT_MEDIUM_HARD
    /\ UNCHANGED <<max_uas, max_aborted, recovered_errs, read_longs, num_retries,
                   read_long_blk_inc, ifp, retries_tmp, params, callHist, nUaRep, okLong>>
    /\ UNCHANGED <<built, rvd, sizes>>

\* case SG_LIB_CAT_MEDIUM_HARD_WITH_INFO, no retry left, error LBA in range:
\* blks = io_addr - lba, and the blocks before it are read again if blks > 0
ReadMediumInfoPartial ==
    /\ pc = "xfer"
    /\ cmds < MaxCmds
    /\ retries_tmp <= 0
    /\ \E d \in DevResponses(lba, blks) :
        LET r == sg_read_low(d, ifp, blks, lba, Addr0)
            n == PartialBlks(r.io_addr, lba)
        IN  /\ r.res = SG_LIB_CAT_MEDIUM_HARD_WITH_INFO
            /\ InRange(r.io_addr, lba, blks)
            /\ Hist(d, r, blks)
            /\ unrecovered_errs' = unrecovered_errs + r.unrec
            /\ IF n > 0
               THEN /\ pc' = "reread"
                    /\ blks' = n
                    /\ buff' = TargetBuf(d, r, blks)
                    /\ wrHi' = TargetHi(r, blks)
                    /\ UNCHANGED <<xferred, lba, bp, nl, result, blks_read, blks_written>>
               ELSE AfterPartial(ifp.coe, SG_LIB_CAT_MEDIUM_HARD, r.io_addr, n,
                                 TargetBuf(d, r, blks), TargetHi(r, blks))
            /\ io_addr' = IoAddrNext(r.io_addr)
    /\ ret' = SG_LIB_CAT_MEDIUM_HARD
    /\ UNCHANGED <<max_uas, max_aborted, recovered_errs, read_longs, num_retries,
                   read_long_blk_inc, ifp, retries_tmp, params, callHist, nUaRep, okLong>>
    /\ UNCHANGED <<built, rvd, sizes>>

\* case SG_LIB_SYNTAX_ERROR: ifp->coe = 0; ret = res; goto err_out
\* (SyntaxCoeKept: a variant that leaves ifp->coe as it is)
SyntaxCoeKept(coe_) == coe_
SyntaxCoe(coe_) == 0

ReadSyntax ==
    /\ pc = "xfer"
    /\ \E d \in DevResponses(lba, blks) :
        LET r == sg_read_low(d, ifp, blks, lba, Addr0)
        IN  /\ r.res = SG_LIB_SYNTAX_ERROR
            /\ Hist(d, r, blks)
            /\ err_out(SyntaxCoe(ifp.coe), r.res, FALSE, blks,
                       TargetBuf(d, r, blks), TargetHi(r, blks))
            /\ ret' = r.res
            /\ io_addr' = IoAddrNext(r.io_addr)
    /\ ifp' = [ifp EXCEPT !.coe = SyntaxCoe(ifp.coe)]
    /\ UNCHANGED <<max_uas, max_aborted, recovered_errs, unrecovered_errs, read_longs,
                   num_retries, read_long_blk_inc, retries_tmp, params, callHist,
                   nUaRep, okLong>>
    /\ UNCHANGED <<built, rvd, sizes>>

\* case -1: ret = res; goto err_out
ReadOtherErr ==
    /\ pc = "xfer"
    /\ cmds < MaxCmds
    /\ \E d \in DevResponses(lba, blks) :
        LET r == sg_read_low(d, ifp, blks, lba, Addr0)
        IN  /\ r.res = RES_OTHER_ERR
            /\ Hist(d, r, blks)
            /\ err_out(ifp.coe, r.res, FALSE, blks, TargetBuf(d, r, blks), TargetHi(r, blks))
            /\ ret' = r.res
            /\ io_addr' = IoAddrNext(r.io_addr)
    /\ UNCHANGED <<max_uas, max_aborted, recovered_errs, unrecovered_errs, read_longs,
                   num_retries, read_long_blk_inc, ifp, retries_tmp, params, callHist,
                   nUaRep, okLong>>
    /\ UNCHANGED <<built, rvd, sizes>>

\* the results the switch has no earlier case for
\* (DefaultResultsNotReady: a variant with no case of its own for
\* SG_LIB_CAT_NOT_READY)
DefaultResultsNotReady(res_) ==
    res_ \notin {0, RES_ENOMEM, SG_LIB_CAT_ABORTED_COMMAND,
                 SG_LIB_CAT_UNIT_ATTENTION, SG_LIB_CAT_MEDIUM_HARD_WITH_INFO,
                 SG_LIB_SYNTAX_ERROR, RES_OTHER_ERR}
DefaultResults(res_) ==
    res_ \notin {0, RES_ENOMEM, SG_LIB_CAT_NOT_READY, SG_LIB_CAT_ABORTED_COMMAND,
                 SG_LIB_CAT_UNIT_ATTENTION, SG_LIB_CAT_MEDIUM_HARD_WITH_INFO,
                 SG_LIB_SYNTAX_ERROR, RES_OTHER_ERR}

\* case SG_LIB_CAT_MEDIUM_HARD (may_coe = true) falling into default, with
\* retries left: repeat
ReadDefaultRetry ==
    /\ pc = "xfer"
    /\ cmds < MaxCmds
    /\ retries_tmp > 0
    /\ \E d \in DevResponses(lba, blks) :
        LET r == sg_read_low(d, ifp, blks, lba, Addr0)
        IN  /\ DefaultResults(r.res)
            /\ Hist(d, r, blks)
            /\ unrecovered_errs' = RetryUnrec(unrecovered_errs + r.unrec)
            /\ Repeat(TargetBuf(d, r, blks), TargetHi(r, blks))
            /\ io_addr' = IoAddrNext(r.io_addr)
    /\ retries_tmp' = retries_tmp - 1
    /\ num_retries' = CountRetry(num_retries)
    /\ UNCHANGED <<max_uas, max_aborted, recovered_errs, read_longs, read_long_blk_inc,
                   ifp, ret, params, callHist, nUaRep, okLong>>
    /\ UNCHANGED <<built, rvd, sizes>>

\* the same with no retry left: ret = res; goto err_out
ReadDefaultFail ==
    /\ pc = "xfer"
    /\ cmds < MaxCmds
    /\ retries_tmp <= 0
    /\ \E d \in DevResponses(lba, blks) :
        LET r == sg_read_low(d, ifp, blks, lba, Addr0)
        IN  /\ DefaultResults(r.res)
            /\ Hist(d, r, blks)
            /\ unrecovered_errs' = unrecovered_errs + r.unrec
            /\ err_out(ifp.coe, r.res, r.res = SG_LIB_CAT_MEDIUM_HARD, blks,
                       TargetBuf(d, r, blks), TargetHi(r, blks))
            /\ ret' = r.res
            /\ io_addr' = IoAddrNext(r.io_addr)
    /\ UNCHANGED <<max_uas, max_aborted, recovered_errs, read_longs, num_retries,
                   read_long_blk_inc, ifp, retries_tmp, params, callHist, nUaRep, okLong>>
    /\ UNCHANGED <<built, rvd, sizes>>


(***************************************************************************)
(* The second transfer, of the blks blocks before the error LBA, and the   *)
(* switch on its result.                                                   *)
(***************************************************************************)
\* case 0: on to xferred += blks
RereadClean ==
    /\ pc = "reread"
    /\ cmds < MaxCmds
    /\ \E d \in DevResponses(lba, blks) :
        LET r == sg_read_low(d, ifp, blks, lba, io_addr)
        IN  /\ r.res = 0
            /\ Hist(d, r, blks)
            /\ recovered_errs' = recovered_errs + r.recov
            /\ AfterPartial(ifp.coe, ret, r.io_addr, blks,
                            TargetBuf(d, r, blks), TargetHi(r, blks))
            /\ io_addr' = IoAddrNext(r.io_addr)
    /\ UNCHANGED <<max_uas, max_aborted, unrecovered_errs, read_longs, num_retries,
                   read_long_blk_inc, ifp, retries_tmp, ret, params, callHist,
                   nUaRep, okLong>>
    /\ UNCHANGED <<built, rvd, sizes>>

\* case -1: ifp->coe = 0; ret = res; goto err_out
RereadOtherErr ==
    /\ pc = "reread"
    /\ cmds < MaxCmds
    /\ \E d \in DevResponses(lba, blks) :
        LET r == sg_read_low(d, ifp, blks, lba, io_addr)
        IN  /\ r.res = RES_OTHER_ERR
            /\ Hist(d, r, blks)
            /\ err_out(0, r.res, FALSE, blks, TargetBuf(d, r, blks), TargetHi(r, blks))
            /\ ret' = r.res
            /\ io_addr' = IoAddrNext(r.io_addr)
    /\ ifp' = [ifp EXCEPT !.coe = 0]
    /\ UNCHANGED <<max_uas, max_aborted, recovered_errs, unrecovered_errs, read_longs,
                   num_retries, read_long_blk_inc, retries_tmp, params, callHist,
                   nUaRep, okLong>>
    /\ UNCHANGED <<built, rvd, sizes>>

\* case -2: return -1
\* (RereadEnomemKept: a variant that returns the result as it is)
RereadEnomemKept(res_) == res_
RereadEnomemResult(res_) == RES_OTHER_ERR

RereadEnomem ==
    /\ pc = "reread"
    /\ cmds < MaxCmds
    /\ \E d \in DevResponses(lba, blks) :
        LET r == sg_read_low(d, ifp, blks, lba, io_addr)
        IN  /\ r.res = RES_ENOMEM
            /\ Hist(d, r, blks)
            /\ Return(RereadEnomemResult(r.res), TargetBuf(d, r, blks), TargetHi(r, blks))
            /\ io_addr' = IoAddrNext(r.io_addr)
    /\ UNCHANGED <<max_uas, max_aborted, recovered_errs, unrecovered_errs, read_longs,
                   num_retries, read_long_blk_inc, ifp, retries_tmp, ret, params,
                   callHist, nUaRep, okLong>>
    /\ UNCHANGED <<built, rvd, sizes>>

\* case SG_LIB_CAT_NOT_READY, SG_LIB_CAT_UNIT_ATTENTION,
\* SG_LIB_CAT_ABORTED_COMMAND: return res
RereadReturn ==
    /\ pc = "reread"
    /\ cmds < MaxCmds
    /\ \E d \in DevResponses(lba, blks) :
        LET r == sg_read_low(d, ifp, blks, lba, io_addr)
        IN  /\ r.res \in {SG_LIB_CAT_NOT_READY, SG_LIB_CAT_UNIT_ATTENTION,
                          SG_LIB_CAT_ABORTED_COMMAND}
            /\ Hist(d, r, blks)
            /\ unrecovered_errs' = unrecovered_errs + r.unrec
            /\ Return(r.res, TargetBuf(d, r, blks), TargetHi(r, blks))
            /\ io_addr' = IoAddrNext(r.io_addr)
    /\ UNCHANGED <<max_uas, max_aborted, recovered_errs, read_longs, num_retries,
                   read_long_blk_inc, ifp, retries_tmp, ret, params, callHist,
                   nUaRep, okLong>>
    /\ UNCHANGED <<built, rvd, sizes>>

\* case SG_LIB_CAT_MEDIUM_HARD_WITH_INFO, SG_LIB_CAT_MEDIUM_HARD:
\* ret = SG_LIB_CAT_MEDIUM_HARD; goto err_out
RereadMedium ==
    /\ pc = "reread"
    /\ cmds < MaxCmds
    /\ \E d \in DevResponses(lba, blks) :
        LET r == sg_read_low(d, ifp, blks, lba, io_addr)
        IN  /\ r.res \in {SG_LIB_CAT_MEDIUM_HARD_WITH_INFO, SG_LIB_CAT_MEDIUM_HARD}
            /\ Hist(d, r, blks)
            /\ unrecovered_errs' = unrecovered_errs + r.unrec
            /\ err_out(ifp.coe, SG_LIB_CAT_MEDIUM_HARD, FALSE, blks,
                       TargetBuf(d, r, blks), TargetHi(r, blks))
            /\ io_addr' = IoAddrNext(r.io_addr)
    /\ ret' = SG_LIB_CAT_MEDIUM_HARD
    /\ UNCHANGED <<max_uas, max_aborted, recovered_errs, read_longs, num_retries,
                   read_long_blk_inc, ifp, retries_tmp, params, callHist, nUaRep, okLong>>
    /\ UNCHANGED <<built, rvd, sizes>>

\* case SG_LIB_SYNTAX_ERROR and default: ret = res; goto err_out
RereadDefault ==
    /\ pc = "reread"
    /\ cmds < MaxCmds
    /\ \E d \in DevResponses(lba, blks) :
        LET r == sg_read_low(d, ifp, blks, lba, io_addr)
        IN  /\ r.res \notin {0, RES_OTHER_ERR, RES_ENOMEM, SG_LIB_CAT_NOT_READY,
                             SG_LIB_CAT_UNIT_ATTENTION, SG_LIB_CAT_ABORTED_COMMAND,
                             SG_LIB_CAT_MEDIUM_HARD_WITH_INFO, SG_LIB_CAT_MEDIUM_HARD}
            /\ Hist(d, r, blks)
            /\ unrecovered_errs' = unrecovered_errs + r.unrec
            /\ err_out(ifp.coe, r.res, FALSE, blks,
                       TargetBuf(d, r, blks), TargetHi(r, blks))
            /\ ret' = r.res
            /\ io_addr' = IoAddrNext(r.io_addr)
    /\ UNCHANGED <<max_uas, max_aborted, recovered_errs, read_longs, num_retries,
                   read_long_blk_inc, ifp, retries_tmp, params, callHist, nUaRep, okLong>>
    /\ UNCHANGED <<built, rvd, sizes>>

(***************************************************************************)
(* The extended read (sg_ll_read_long10) of the failing block at lba into  *)
(* a scratch buffer of 2 * bs bytes, and a second one at the adjusted      *)
(* length.  LongResults are the results of sg_ll_read_long10 and           *)
(* LongOffsets the offsets it reports with                                 *)
(* SG_LIB_CAT_ILLEGAL_REQ_WITH_INFO.                                       *)
(***************************************************************************)
LongOffsets == {-56, 48}
LongFailures == {SG_LIB_CAT_INVALID_OP, SG_LIB_CAT_ILLEGAL_REQ, SG_LIB_CAT_NOT_READY,
                 SG_LIB_CAT_UNIT_ATTENTION, SG_LIB_CAT_ABORTED_COMMAND, RES_OTHER_ERR}

histStep == <<nXfer, last_io, last_res, err_lba, allUA, medE, pure>>

\* an extended read of len bytes is answered
LongCmd(len) ==
    /\ longs < MaxLongs
    /\ longs' = Tally(longs)
    /\ long_len' = Noted(len, long_len)
    /\ UNCHANGED cmds

\* sg_memalign returns NULL: return -1
LongAllocFail ==
    /\ pc = "long1"
    /\ UNCHANGED <<cmds, longHist>>
    /\ Return(RES_OTHER_ERR, buff, wrHi)
    /\ UNCHANGED <<max_uas, max_aborted, recovered_errs, unrecovered_errs, read_longs,
                   num_retries, read_long_blk_inc, ifp, retries_tmp, ret,
                   params, callHist, nUaRep, okLong, histStep>>
    /\ io_addr' = IoAddrNext(io_addr)
    /\ UNCHANGED <<built, rvd, sizes>>

\* the first extended read returns 0: ++read_longs; memcpy(bp, buffp, bs)
ReadLongOk ==
    /\ pc = "long1"
    /\ LongCmd(ReadLongLen(bs, read_long_blk_inc))
    /\ UNCHANGED offset
    /\ read_longs' = ReadLongsNext(read_longs)
    /\ okLong' = Noted(okLong \cup {bp \div bs}, okLong)
    /\ LoopEnd(xferred, bp, lba, nl, Fill(buff, bs, bp, bs, "long"), Max(wrHi, bp + bs))
    /\ UNCHANGED <<max_uas, max_aborted, recovered_errs, unrecovered_errs, num_retries,
                   read_long_blk_inc, ifp, retries_tmp, ret, params, callHist,
                   nUaRep, histStep>>
    /\ io_addr' = IoAddrNext(io_addr)
    /\ UNCHANGED <<built, rvd, sizes>>

\* it returns SG_LIB_CAT_ILLEGAL_REQ_WITH_INFO: the length is adjusted and
\* remembered and the read issued again, unless the new length is unexpected
ReadLongAdjust ==
    /\ pc = "long1"
    /\ LongCmd(ReadLongLen(bs, read_long_blk_inc))
    /\ \E off \in LongOffsets :
        LET n == AdjustedLen(bs, read_long_blk_inc, off)
        IN  /\ offset' = Noted(off, offset)
            /\ IF LenUnexpected(n, bs)
               THEN /\ LoopEnd(xferred, bp, lba, n, Fill(buff, bs, bp, bs, "zero"),
                               Max(wrHi, bp + bs))
                    /\ UNCHANGED read_long_blk_inc
               ELSE /\ read_long_blk_inc' = n - bs
                    /\ nl' = n
                    /\ pc' = "long2"
                    /\ UNCHANGED <<xferred, blks, lba, bp, result, blks_read,
                                   blks_written, buff, wrHi>>
    /\ UNCHANGED <<max_uas, max_aborted, recovered_errs, unrecovered_errs, read_longs,
                   num_retries, ifp, retries_tmp, ret, params, callHist,
                   nUaRep, okLong, histStep>>
    /\ io_addr' = IoAddrNext(io_addr)
    /\ UNCHANGED <<built, rvd, sizes>>

\* any other result: memset(bp, 0, bs)
ReadLongFail ==
    /\ pc = "long1"
    /\ LongCmd(ReadLongLen(bs, read_long_blk_inc))
    /\ UNCHANGED offset
    /\ \E res_ \in LongFailures :
        LoopEnd(xferred, bp, lba, nl, Fill(buff, bs, bp, bs, "zero"), Max(wrHi, bp + bs))
    /\ UNCHANGED <<max_uas, max_aborted, recovered_errs, unrecovered_errs, read_longs,
                   num_retries, read_long_blk_inc, ifp, retries_tmp, ret,
                   params, callHist, nUaRep, okLong, histStep>>
    /\ io_addr' = IoAddrNext(io_addr)
    /\ UNCHANGED <<built, rvd, sizes>>

\* the second extended read returns 0: ++read_longs; memcpy(bp, buffp, bs)
ReadLong2Ok ==
    /\ pc = "long2"
    /\ LongCmd(nl)
    /\ UNCHANGED offset
    /\ read_longs' = ReadLongsNext(read_longs)
    /\ okLong' = Noted(okLong \cup {bp \div bs}, okLong)
    /\ LoopEnd(xferred, bp, lba, nl, Fill(buff, bs, bp, bs, "long"), Max(wrHi, bp + bs))
    /\ UNCHANGED <<max_uas, max_aborted, recovered_errs, unrecovered_errs, num_retries,
                   read_long_blk_inc, ifp, retries_tmp, ret, params, callHist,
                   nUaRep, histStep>>
    /\ io_addr' = IoAddrNext(io_addr)
    /\ UNCHANGED <<built, rvd, sizes>>

\* the second extended read fails: memset(bp, 0, bs)
ReadLong2Fail ==
    /\ pc = "long2"
    /\ LongCmd(nl)
    /\ UNCHANGED offset
    /\ \E res_ \in LongFailures \cup {SG_LIB_CAT_ILLEGAL_REQ_WITH_INFO} :
        LoopEnd(xferred, bp, lba, nl, Fill(buff, bs, bp, bs, "zero"), Max(wrHi, bp + bs))
    /\ UNCHANGED <<max_uas, max_aborted, recovered_errs, unrecovered_errs, read_longs,
                   num_retries, read_long_blk_inc, ifp, retries_tmp, ret,
                   params, callHist, nUaRep, okLong, histStep>>
    /\ io_addr' = IoAddrNext(io_addr)
    /\ UNCHANGED <<built, rvd, sizes>>

Next ==
    \/ sg_read_call
    \/ ReadClean
    \/ ReadEnomem
    \/ ReadNotReady
    \/ ReadAborted
    \/ ReadUnitAttention
    \/ ReadMediumInfoRetry
    \/ ReadMediumInfoRange
    \/ ReadMediumInfoPartial
    \/ ReadSyntax
    \/ ReadOtherErr
    \/ ReadDefaultRetry
    \/ ReadDefaultFail
    \/ RereadClean
    \/ RereadOtherErr
    \/ RereadEnomem
    \/ RereadReturn
    \/ RereadMedium
    \/ RereadDefault
    \/ LongAllocFail
    \/ ReadLongOk
    \/ ReadLongAdjust
    \/ ReadLongFail
    \/ ReadLong2Ok
    \/ ReadLong2Fail

Spec == Init /\ [][Next]_vars

(***************************************************************************)
(* SpecLive: the same program with a device that answers any number of     *)
(* commands.  sg_read is sequential code: once called it keeps taking      *)
(* steps, provided each SG_IO ioctl and each sg_ll_read_long10 comes back  *)
(* (a transfer step stands for the ioctl loop up to its first result that  *)
(* is not EINTR, EAGAIN or EBUSY).  Nothing obliges the caller to call     *)
(* again.                                                                  *)
(***************************************************************************)
InitLive == InitWith(0 - 1)

InCall == pc \notin {"idle", "done"} /\ Next

SpecLive == InitLive /\ [][Next]_vars /\ WF_vars(InCall)

(***************************************************************************)
(* SpecSizes: the same program called with two block sizes that both       *)
(* reach the extended read (bs >= 32), as when the devices of a run report *)
(* different sector sizes: read_long_blk_inc learned in a call with one    *)
(* block size is used by a call with the other.                            *)
(***************************************************************************)
LongSizes == {32, 64}

InitSizes == AtEntry(0) /\ rvd = NoDevice /\ sizes = LongSizes

SpecSizes == InitSizes /\ [][Next]_vars

(***************************************************************************)
(* SpecCdb: the descriptor build at the head of sg_read_low, over cdb_sz,  *)
(* blocks, from_block, fua and dpo taken from the whole width of their     *)
(* types.  The engine stands still.                                        *)
(***************************************************************************)
engine == <<max_uas, max_aborted, recovered_errs, unrecovered_errs, read_longs,
            num_retries, read_long_blk_inc, ifp,
            pc, blocks, from_block, bs, xferred, blks, lba, bp, retries_tmp, ret,
            io_addr, nl, blks_read, blks_written, result, buff,
            calls, nXfer, wrHi, ifp0, uas0, unrec0, nretr0, rl0, nUaRep, allUA,
            medE, pure, okLong, last_io, last_res, err_lba, cmds,
            longs, long_len, offset>>

CdbSizes == {6, 8, 10, 12, 16, 32}
\* 0, 100, 0x1fff00, 0x1fffff, 0x200000, 0x12345678, 2^32 - 1, 2^32,
\* 0x0123456789abcdef, 2^63 - 65536
CdbStarts ==
    {<<0, 0, 0, 0>>, <<0, 0, 0, 100>>, <<0, 0, 31, 65280>>, <<0, 0, 31, 65535>>,
     <<0, 0, 32, 0>>, <<0, 0, 4660, 22136>>, <<0, 0, 65535, 65535>>, <<0, 1, 0, 0>>,
     <<291, 17767, 35243, 52719>>, <<32767, 65535, 65535, 0>>}
\* 0, 1, 255, 256, 257, 65535, 65536, 0x12345678, 2^32 - 1
CdbBlocks ==
    {<<0, 0>>, <<0, 1>>, <<0, 255>>, <<0, 256>>, <<0, 257>>, <<0, 65535>>, <<1, 0>>,
     <<4660, 22136>>, <<65535, 65535>>}

InitCdb ==
    /\ Init
    /\ ifp = [cdbsz |-> 10, fua |-> 0, dpo |-> 0, coe |-> 0, pdt |-> 0, retries |-> 0]

\* sg_build_scsi_cdb(rdCmd, ifp->cdbsz, blocks, from_block, 0, ifp->fua,
\* ifp->dpo) and, when it succeeded, io_hdr.dxfer_direction = SG_DXFER_FROM_DEV
\* (one call of sg_read_low per behaviour: the build keeps nothing from one
\* call to the next)
sg_read_low_cdb ==
    /\ built = NoBuild
    /\ \E sz \in CdbSizes, b \in CdbBlocks, st \in CdbStarts, f \in {0, 1}, dp \in {0, 1} :
        LET c == sg_build_scsi_cdb(sz, b, st, 0, f, dp)
        IN  built' = [caller |-> "sg_read_low", cdb_sz |-> sz, blocks |-> b,
                      start_block |-> st, fua |-> f, dpo |-> dp,
                      ret |-> c.ret, cdb |-> c.cdb,
                      dxfer_direction |-> IF c.ret = 0 THEN "SG_DXFER_FROM_DEV"
                                          ELSE "none"]
    /\ UNCHANGED <<engine, rvd, sizes>>

NextCdb == sg_read_low_cdb

SpecCdb == InitCdb /\ [][NextCdb]_vars

(***************************************************************************)
(* SpecPass: the pass loop of read_verify_device.  Each window of a pass   *)
(* is read by sg_read inside a while (1) loop.  The loop looks at nothing  *)
(* of a call but its return value, so a call of sg_read is one step here,  *)
(* returning SG_LIB_SYNTAX_ERROR when the descriptor cannot be built for   *)
(* the flags it is given and otherwise any of the values sg_read returns.  *)
(* The engine stands still.                                                *)
(***************************************************************************)
\* the run ends after MaxReads calls of sg_read
MaxReads == 4

DEF_SCSI_CDBSZ == 10
MIN_RESERVED_SIZE == 8192
FT_OTHER == 1
FT_SG == 2

\* static struct flags_t iflag, oflag: zero until main sets oflag.cdbsz
iflag == [cdbsz |-> 0, fua |-> 0, dpo |-> 0, coe |-> 0, pdt |-> 0, retries |-> 0]
oflag == [iflag EXCEPT !.cdbsz = DEF_SCSI_CDBSZ]
FlagsNamed(name) == IF name = "oflag" THEN oflag ELSE iflag

\* -s, -e, -n on the command line, opt.passes, opt.nretries
Options ==
    {[start |-> 0, end |-> e, sectors |-> n, passes |-> p, nretries |-> r] :
        e \in {4, 5}, n \in {1, 4}, p \in {1, 2}, r \in {0, 1}}
\* the sector size the device reports, and the sizes SG_GET_RESERVED_SIZE gives
SectorSizes == {512, 4096}
ReservedSizes == {4096, 8192, 12288}

\* what sg_read returns to the window loop for n blocks at fb under flags f
PassResults == {0, RES_ENOMEM, RES_OTHER_ERR, SG_LIB_CAT_NOT_READY, SG_LIB_CAT_MEDIUM_HARD}
sg_read_returns(f, n, fb) ==
    IF sg_build_scsi_cdb_ret(f.cdbsz, Wide32(n), Wide64(fb), f.fua, f.dpo) # 0
    THEN {SG_LIB_SYNTAX_ERROR}
    ELSE PassResults

\* no call of sg_read made yet
NoCall == [ifp |-> "none", blocks |-> 0, from_block |-> 0, res |-> 0, pass |-> 0]

\* the call of sg_read the window loop makes with the flags named by name
\* (oflag at 1544, iflag at 1561), returning r
WindowCall(name, n, r) ==
    [ifp |-> name, blocks |-> n, from_block |-> rvd.seek, res |-> r, pass |-> rvd.pass]

\* the flags of the call repeated after ENOMEM: &iflag
RepeatFlags == "iflag"

\* where the while (1) loop goes after a call that returned r: break when
\* r is not 0, else round again (first = 0)
AfterRead(r) == IF r # 0 THEN "seek" ELSE "read"

\* read_verify_device up to its pass loop: res = 0, retries_tmp = 5,
\* bRetryerror = false, pass = 1
InitPass ==
    /\ AtEntry(0)
    /\ sizes = BlockSizes
    /\ ifp = oflag
    /\ \E o \in Options, t \in {FT_OTHER, FT_SG}, z \in SectorSizes :
        rvd = [pc |-> "pass", opt |-> o, out_type |-> t, blk_sz |-> z,
               pass |-> 1, sector |-> 0, seek |-> 0, sectors_to_process |-> 0,
               res |-> 0, retries_tmp |-> 5, bRetryerror |-> FALSE,
               reads |-> 0, call |-> NoCall]

\* for (pass = 1; pass <= opt.passes; ++pass): the test, and the head of the
\* body down to sector = opt.start
rvd_pass ==
    /\ rvd.pc = "pass"
    /\ rvd' = IF rvd.pass <= rvd.opt.passes
              THEN [rvd EXCEPT !.pc = "sector",
                               !.sectors_to_process = rvd.opt.sectors,
                               !.seek = rvd.opt.start,
                               !.retries_tmp = rvd.opt.nretries,
                               !.sector = rvd.opt.start]
              ELSE [rvd EXCEPT !.pc = "done"]
    /\ UNCHANGED <<engine, built, sizes>>

\* for (...; sector <= opt.end; ...): the test, the clamp of
\* sectors_to_process at opt.end and if (FT_SG & out_type)
rvd_sector ==
    /\ rvd.pc = "sector"
    /\ rvd' = IF rvd.sector <= rvd.opt.end
              THEN IF rvd.sector + rvd.sectors_to_process > rvd.opt.end
                   THEN IF rvd.opt.end - rvd.sector = 0
                        THEN [rvd EXCEPT !.sectors_to_process = 0, !.pc = "passend"]
                        ELSE [rvd EXCEPT !.sectors_to_process = rvd.opt.end - rvd.sector,
                                         !.pc = IF rvd.out_type = FT_SG THEN "read"
                                                ELSE "seek"]
                   ELSE [rvd EXCEPT !.pc = IF rvd.out_type = FT_SG THEN "read" ELSE "seek"]
              ELSE [rvd EXCEPT !.pc = "passend"]
    /\ UNCHANGED <<engine, built, sizes>>

\* one round of while (1): res = sg_read(..., sectors_to_process, seek,
\* blk_sz, &oflag, ...), then to the ENOMEM branch, or break, or round again
rvd_read ==
    /\ rvd.pc = "read"
    /\ rvd.reads < MaxReads
    /\ \E r \in sg_read_returns(oflag, rvd.sectors_to_process, rvd.seek) :
        rvd' = [rvd EXCEPT !.res = r,
                           !.reads = rvd.reads + 1,
                           !.call = WindowCall("oflag", rvd.sectors_to_process, r),
                           !.pc = IF r = RES_ENOMEM THEN "enomem" ELSE AfterRead(r)]
    /\ UNCHANGED <<engine, built, sizes>>

\* if (-2 == res): the ioctl fails (break); or blocks_per is not below
\* sectors_to_process (res stays -2: break); or sectors_to_process =
\* blocks_per and sg_read is called again
rvd_enomem ==
    /\ rvd.pc = "enomem"
    /\ \/ rvd' = [rvd EXCEPT !.pc = "seek"]
       \/ \E sz \in ReservedSizes :
            LET buf_sz == Max(sz, MIN_RESERVED_SIZE)
                blocks_per == (buf_sz + rvd.blk_sz - 1) \div rvd.blk_sz
            IN  IF blocks_per < rvd.sectors_to_process
                THEN /\ rvd.reads < MaxReads
                     /\ \E r \in sg_read_returns(FlagsNamed(RepeatFlags), blocks_per, rvd.seek) :
                          rvd' = [rvd EXCEPT !.sectors_to_process = blocks_per,
                                             !.res = r,
                                             !.reads = rvd.reads + 1,
                                             !.call = WindowCall(RepeatFlags, blocks_per, r),
                                             !.pc = AfterRead(r)]
                ELSE rvd' = [rvd EXCEPT !.pc = AfterRead(rvd.res)]
    /\ UNCHANGED <<engine, built, sizes>>

\* seek += sectors_to_process, and sector += opt.sectors of the for
rvd_seek ==
    /\ rvd.pc = "seek"
    /\ rvd' = [rvd EXCEPT !.seek = rvd.seek + rvd.sectors_to_process,
                          !.sector = rvd.sector + rvd.opt.sectors,
                          !.pc = "sector"]
    /\ UNCHANGED <<engine, built, sizes>>

\* after the windows: if (res != 0) the pass is repeated (pass--; continue)
\* or the pass loop is left; else ++pass
rvd_pass_end ==
    /\ rvd.pc = "passend"
    /\ rvd' = IF rvd.res # 0
              THEN IF rvd.retries_tmp > 0 /\ rvd.bRetryerror
                   THEN [rvd EXCEPT !.bRetryerror = FALSE, !.pc = "pass"]
                   ELSE [rvd EXCEPT !.pc = "done"]
              ELSE [rvd EXCEPT !.pass = rvd.pass + 1, !.pc = "pass"]
    /\ UNCHANGED <<engine, built, sizes>>

NextPass ==
    \/ rvd_pass
    \/ rvd_sector
    \/ rvd_read
    \/ rvd_enomem
    \/ rvd_seek
    \/ rvd_pass_end

SpecPass == InitPass /\ [][NextPass]_vars

(***************************************************************************)
(* Properties of sg_read.                                                  *)
(***************************************************************************)

\* C1: whenever sg_read has stored a value to *blks_readp, that value is at
\* most the requested block count.
C1_BlocksReadAtMostCount == blks_written => blks_read <= blocks

\* a call that failed after err_out had reported every requested block
C1_Witness ==
    pc = "done" /\ blks_written /\ result # 0 /\ blocks > 1 /\ blks_read = blocks

\* C2: every byte range of the destination buffer that sg_read hands to the
\* device, zero-fills or copies an extended read into ends at or before
\* count * block size (wrHi is the highest end of these ranges; they start at
\* bp >= 0).
C2_WritesInsideBuffer == bp >= 0 /\ wrHi <= blocks * bs

\* err_out has zero-filled the remainder up to the end of the buffer
C2_Witness ==
    /\ pc = "done" /\ blocks > 1 /\ wrHi = blocks * bs /\ result # 0
    /\ \A i \in DOMAIN buff : buff[i] = "zero"

\* C3: when sg_read has returned 0, *blks_readp is the requested count and
\* every block of the buffer holds device data, extended-read data or zeros;
\* with coe = 0 every block holds device data.
C3_SuccessIsComplete ==
    (pc = "done" /\ result = 0) =>
        /\ blks_written
        /\ blks_read = blocks
        /\ \A i \in DOMAIN buff : buff[i] \in {"data", "long", "zero"}
        /\ ifp0.coe = 0 => \A i \in DOMAIN buff : buff[i] = "data"

\* a successful call with a substituted block and a block of device data
C3_Witness ==
    /\ pc = "done" /\ result = 0 /\ blocks > 1
    /\ \E i, j \in DOMAIN buff : buff[i] = "zero" /\ buff[j] = "data"

\* C4: with coe = 0, when the device reports a medium error at an LBA e of
\* the requested range and answers every transfer that does not cover e
\* cleanly, sg_read returns SG_LIB_CAT_MEDIUM_HARD with *blks_readp = e -
\* from_block.
C4_MediumErrorStops ==
    (pc = "done" /\ ifp0.coe = 0 /\ pure /\ medE # {}) =>
        /\ result = SG_LIB_CAT_MEDIUM_HARD
        /\ blks_written
        /\ \A e \in medE : blks_read = e - from_block

\* the error is at the second block and the first one was read again
C4_Witness ==
    /\ pc = "done" /\ ifp0.coe = 0 /\ pure /\ medE = {from_block + 1}
    /\ blks_read = 1 /\ buff[0] = "data"

\* C5 as stated: with coe = 1 on a disk, a medium error at e gives result 0,
\* *blks_readp = count and zeros in every block from e to the end of the
\* request.
C5_ZerosFromErrorToEnd ==
    (/\ pc = "done" /\ ifp0.coe = 1 /\ ifp0.pdt = 0 /\ bs >= MIN_READ_LONG_LEN
     /\ pure /\ medE # {}) =>
        /\ result = 0
        /\ blks_written
        /\ blks_read = blocks
        /\ \A i \in DOMAIN buff :
              (\E e \in medE : from_block + i >= e) => buff[i] = "zero"

\* C5: with coe = 1 on a disk of block size >= 32, a medium error at e (every
\* transfer that does not cover e being clean) gives result 0, *blks_readp =
\* count, zeros in block e alone and device data in every other block.
C5_ZerosAtErrorOnly ==
    (/\ pc = "done" /\ ifp0.coe = 1 /\ ifp0.pdt = 0 /\ bs >= MIN_READ_LONG_LEN
     /\ pure /\ medE # {}) =>
        /\ result = 0
        /\ blks_written
        /\ blks_read = blocks
        /\ \A i \in DOMAIN buff :
              buff[i] = IF from_block + i \in medE THEN "zero" ELSE "data"

\* the error is at the first block and the block after it was read
C5_Witness ==
    /\ pc = "done" /\ ifp0.coe = 1 /\ ifp0.pdt = 0 /\ bs >= MIN_READ_LONG_LEN
    /\ pure /\ medE = {from_block} /\ blocks > 1
    /\ buff[0] = "zero" /\ buff[1] = "data"

\* C6: (coe = 2 on a disk) a block whose extended read returned 0 holds the
\* first bs bytes of that read, and read_longs has grown by one per such block.
C6_ExtendedReadRecovers ==
    /\ \A i \in okLong : buff[i] = "long"
    /\ read_longs = rl0 + Cardinality(okLong)
    /\ okLong # {} => (ifp0.coe = 2 /\ ifp0.pdt = 0)

\* a call that recovered a block this way and went on to succeed
C6_Witness ==
    /\ pc = "done" /\ result = 0 /\ okLong # {} /\ ifp0.coe = 2 /\ ifp0.pdt = 0
    /\ blocks > 1 /\ read_longs = rl0 + 1

\* C7 as stated: a call that starts with max_uas = c >= 0 and whose every
\* transfer is answered UNIT ATTENTION returns SG_LIB_CAT_UNIT_ATTENTION after
\* c + 1 transfers and leaves max_uas = 0.
C7_UnitAttentionCeiling ==
    (pc = "done" /\ allUA /\ nXfer >= 1 /\ uas0 >= 0) =>
        /\ result = SG_LIB_CAT_UNIT_ATTENTION
        /\ nXfer = uas0 + 1
        /\ max_uas = 0

\* C8 as stated: max_uas and max_aborted are never negative.
C8_CeilingsNonNegative == max_uas >= 0 /\ max_aborted >= 0

C10_EnomemReturnsAtOnce ==
    [][(pc = "xfer" /\ nXfer' = nXfer + 1 /\ last_io' = "ENOMEM") =>
          /\ pc' = "done"
          /\ result' = RES_ENOMEM
          /\ UNCHANGED <<retries_tmp, max_uas, max_aborted, unrecovered_errs,
                         num_retries>>]_vars

\* a call ended by ENOMEM on a first transfer
C10_Witness ==
    /\ pc = "done" /\ result = RES_ENOMEM /\ last_io = "ENOMEM"
    /\ unrecovered_errs = unrec0 /\ max_uas = uas0

\* C11 as stated: whenever the last transfer of a call failed with ENOMEM,
\* be it the first transfer of a sub-range or the re-read of the blocks
\* before the error LBA, sg_read has returned -2.
C11_EnomemAlwaysPropagates ==
    (pc = "done" /\ nXfer >= 1 /\ last_io = "ENOMEM") => result = RES_ENOMEM

\* C11: a transfer that fails with ENOMEM ends the call at every coe level,
\* with nothing stored to *blks_readp; sg_read returns -2 when it was the
\* first transfer of a sub-range and -1 when it was the re-read of the blocks
\* before the error LBA.
C11_EnomemEndsCall ==
    [][(nXfer' = nXfer + 1 /\ last_io' = "ENOMEM") =>
          /\ pc' = "done"
          /\ result' = (IF pc = "reread" THEN RES_OTHER_ERR ELSE RES_ENOMEM)
          /\ UNCHANGED <<blks_read, blks_written>>]_vars

\* a call under coe >= 1 whose re-read failed with ENOMEM
C11_Witness ==
    /\ pc = "done" /\ last_io = "ENOMEM" /\ nXfer >= 2 /\ result = RES_OTHER_ERR
    /\ ifp0.coe >= 1 /\ ~blks_written

\* C12: when the command descriptor cannot be built for the request, sg_read
\* returns SG_LIB_SYNTAX_ERROR at every coe level: no transfer is issued, no
\* retry is spent, no block of the buffer is written and nothing is stored
\* to *blks_readp.
C12_SyntaxErrorPropagates ==
    (/\ pc = "done" /\ blocks > 0
     /\ sg_build_scsi_cdb_ret(ifp0.cdbsz, Wide32(blocks), Wide64(from_block),
                              ifp0.fua, ifp0.dpo) # 0) =>
        /\ result = SG_LIB_SYNTAX_ERROR
        /\ nXfer = 0
        /\ retries_tmp = ifp0.retries /\ num_retries = nretr0
        /\ wrHi = 0 /\ \A i \in DOMAIN buff : buff[i] = "stale"
        /\ ~blks_written

\* a call under coe = 2 with retries whose descriptor could not be built
C12_Witness ==
    /\ pc = "done" /\ result = SG_LIB_SYNTAX_ERROR /\ blocks > 1
    /\ ifp0.coe = 2 /\ ifp0.retries > 0 /\ ifp0.cdbsz = 8

\* C13 as stated: with coe >= 1, a call whose last transfer failed with an
\* exhausted ceiling, NOT READY, -1 or a generic category has zero-filled the
\* rest of the sub-range, stored *blks_readp as if complete and returned 0.
C13_EveryFailureFudged ==
    (/\ pc = "done" /\ ifp0.coe >= 1
     /\ last_res \in {SG_LIB_CAT_UNIT_ATTENTION, SG_LIB_CAT_ABORTED_COMMAND,
                      SG_LIB_CAT_NOT_READY, RES_OTHER_ERR, SG_LIB_CAT_OTHER,
                      SG_LIB_CAT_ILLEGAL_REQ}) =>
        /\ result = 0
        /\ blks_written /\ blks_read = blocks
        /\ \A i \in DOMAIN buff : i >= xferred => buff[i] = "zero"

\* C13: with coe >= 1, when the first transfer of a sub-range ends the call
\* with result f,
\*  - f UNIT ATTENTION, ABORTED COMMAND (ceiling exhausted) or NOT READY:
\*    sg_read returns f, zero-fills nothing and stores nothing to *blks_readp;
\*  - f = -1 or a generic category (retries run out): the rest of the
\*    sub-range is zero-filled and *blks_readp = count, but f is returned;
\*  - f a medium error without error LBA (retries run out), or with an error
\*    LBA (outside the sub-range, or at its last block when that block is
\*    zero-filled; bs >= 32): the rest is zero-filled, *blks_readp = count
\*    and 0 is returned.
C13_FailureUnderCoe ==
    [][(/\ pc = "xfer" /\ pc' = "done" /\ nXfer' = nXfer + 1 /\ ifp.coe >= 1
        /\ last_res' \notin {0, RES_ENOMEM, SG_LIB_SYNTAX_ERROR}) =>
          LET f == last_res'
              Zeroed == /\ blks_written' /\ blks_read' = blocks
                        /\ \A i \in DOMAIN buff :
                              buff'[i] = IF i >= xferred THEN "zero" ELSE buff[i]
              Untouched == /\ UNCHANGED <<blks_read, blks_written>>
                           /\ \A i \in DOMAIN buff : buff'[i] = "zero" => buff[i] = "zero"
          IN  /\ f \in {SG_LIB_CAT_UNIT_ATTENTION, SG_LIB_CAT_ABORTED_COMMAND,
                        SG_LIB_CAT_NOT_READY} => (Untouched /\ result' = f)
              /\ (f = RES_OTHER_ERR \/ (DefaultResults(f) /\ f # SG_LIB_CAT_MEDIUM_HARD))
                    => (Zeroed /\ result' = f)
              /\ f = SG_LIB_CAT_MEDIUM_HARD => (Zeroed /\ result' = 0)
              /\ (f = SG_LIB_CAT_MEDIUM_HARD_WITH_INFO /\ bs >= MIN_READ_LONG_LEN)
                    => (Zeroed /\ result' = 0)]_vars

\* a call under coe >= 1 whose first transfer failed with -1: zeros in both
\* blocks, *blks_readp = count, and -1 returned
C13_Witness ==
    /\ pc = "done" /\ ifp0.coe >= 1 /\ nXfer = 1 /\ last_res = RES_OTHER_ERR
    /\ result = RES_OTHER_ERR /\ blocks > 1 /\ blks_written /\ blks_read = blocks
    /\ \A i \in DOMAIN buff : buff[i] = "zero"

\* C14: with coe = 0, a call that met a persistent medium error with a valid
\* error LBA inside the range (every transfer not covering it being clean)
\* has raised unrecovered_errs by exactly 1, whatever the retry count.
C14_OneUnrecoveredError ==
    (pc = "done" /\ ifp0.coe = 0 /\ pure /\ medE # {}) =>
        unrecovered_errs = unrec0 + 1

\* such a call that spent a retry and read the blocks before the error again
C14_Witness ==
    /\ pc = "done" /\ ifp0.coe = 0 /\ pure /\ medE = {from_block + 1}
    /\ ifp0.retries > 0 /\ retries_tmp = 0 /\ nXfer = 3
    /\ unrecovered_errs = unrec0 + 1

\* C15: when the first transfer of a call, for the whole requested range, is
\* answered clean, sg_read returns 0 with *blks_readp = count after that one
\* transfer, every block of the buffer holds device data, and no counter, no
\* ceiling and no retry budget changes.
C15_CleanFirstTransfer ==
    [][(pc = "xfer" /\ nXfer = 0 /\ nXfer' = 1 /\ pure' /\ medE' = {}) =>
          /\ pc' = "done" /\ result' = 0
          /\ blks_written' /\ blks_read' = blocks
          /\ \A i \in DOMAIN buff : buff'[i] = "data"
          /\ UNCHANGED <<max_uas, max_aborted, recovered_errs, unrecovered_errs,
                         read_longs, num_retries, retries_tmp, read_long_blk_inc>>]_vars

\* a call of more than one block that ended so
C15_Witness ==
    /\ pc = "done" /\ nXfer = 1 /\ pure /\ medE = {} /\ last_res = 0
    /\ blocks > 1 /\ result = 0 /\ blks_read = blocks

(***************************************************************************)
(* Properties of the descriptor build (checked under SpecCdb)              *)
(***************************************************************************)
\* what a device reads out of a descriptor: n bytes from offset off as a
\* big-endian number, in 16-bit limbs (n even)
C16_Field(cdb, off, n) ==
    [k \in 1..(n \div 2) |-> cdb[off + 2 * (k - 1)] * 256 + cdb[off + 2 * (k - 1) + 1]]

C16_DecodeStart(cdb_sz, cdb) ==
    CASE cdb_sz = 6 -> <<0, 0, cdb[1] % 32, cdb[2] * 256 + cdb[3]>>
      [] cdb_sz = 10 -> <<0, 0>> \o C16_Field(cdb, 2, 4)
      [] cdb_sz = 12 -> <<0, 0>> \o C16_Field(cdb, 2, 4)
      [] cdb_sz = 16 -> C16_Field(cdb, 2, 8)

C16_DecodeCount(cdb_sz, cdb) ==
    CASE cdb_sz = 6 -> IF cdb[4] = 0 THEN <<0, 256>> ELSE <<0, cdb[4]>>
      [] cdb_sz = 10 -> <<0>> \o C16_Field(cdb, 7, 2)
      [] cdb_sz = 12 -> C16_Field(cdb, 6, 4)
      [] cdb_sz = 16 -> C16_Field(cdb, 10, 4)

\* the (start block, block count) pairs each descriptor length can carry:
\* 6 bytes: 1..256 blocks ending inside the 21-bit address space (and no
\* option flag, which that length cannot carry); 10 bytes: a 32-bit start
\* and a 16-bit count; 12 bytes: a 32-bit start; 16 bytes: any start
C16_InRange(b) ==
    CASE b.cdb_sz = 6 ->
           /\ b.start_block[1] = 0 /\ b.start_block[2] = 0 /\ b.start_block[3] < 32
           /\ b.blocks[1] = 0 /\ b.blocks[2] >= 1 /\ b.blocks[2] <= 256
           /\ b.start_block[3] * 65536 + b.start_block[4] + b.blocks[2] - 1 < 2097152
           /\ b.fua = 0 /\ b.dpo = 0
      [] b.cdb_sz = 10 ->
           /\ b.start_block[1] = 0 /\ b.start_block[2] = 0
           /\ b.blocks[1] = 0
      [] b.cdb_sz = 12 -> b.start_block[1] = 0 /\ b.start_block[2] = 0
      [] b.cdb_sz = 16 -> b.start_block[1] < 32768
      [] OTHER -> FALSE

\* C16: for each descriptor length in {6, 10, 12, 16} and every in-range
\* (start block, block count) for that length, sg_build_scsi_cdb succeeds and
\* decoding the address and count fields of the bytes it produced
\* (big-endian; 21-bit address and count field 0 meaning 256 for the 6-byte
\* form) yields the same start block and the same count.
C16_BuildRoundTrip ==
    (built # NoBuild /\ C16_InRange(built)) =>
        /\ built.ret = 0
        /\ C16_DecodeStart(built.cdb_sz, built.cdb) = built.start_block
        /\ C16_DecodeCount(built.cdb_sz, built.cdb) = built.blocks

\* a 16-byte descriptor built for start 0x0123456789abcdef and 0x12345678
\* blocks
C16_Witness ==
    /\ built # NoBuild
    /\ built.cdb_sz = 16
    /\ built.start_block = <<291, 17767, 35243, 52719>>
    /\ built.blocks = <<4660, 22136>>
    /\ built.ret = 0

\* C17: for the 6-byte descriptor, a block count of 256 (with the range
\* inside the 21-bit address space and no option flag) succeeds with the
\* count field encoded as 0, and every block count greater than 256 is a
\* build failure.
C17_SixByteCount256 ==
    (built # NoBuild /\ built.cdb_sz = 6) =>
        /\ ( /\ built.blocks = <<0, 256>>
             /\ built.start_block[1] = 0 /\ built.start_block[2] = 0
             /\ built.start_block[3] < 32
             /\ built.start_block[3] * 65536 + built.start_block[4] + 255 < 2097152
             /\ built.fua = 0 /\ built.dpo = 0 )
           => (built.ret = 0 /\ built.cdb[4] = 0)
        /\ (built.blocks[1] > 0 \/ built.blocks[2] > 256) => built.ret = 1

\* 256 blocks ending on the last 21-bit address, 0x1fffff, built as 6 bytes
C17_Witness ==
    /\ built # NoBuild
    /\ built.cdb_sz = 6
    /\ built.blocks = <<0, 256>>
    /\ built.start_block = <<0, 0, 31, 65280>>
    /\ built.fua = 0 /\ built.dpo = 0
    /\ built.ret = 0

\* C18: a 6-byte build with force-unit-access or disable-page-out set
\* fails; a 10-, 12- or 16-byte build with those flags set succeeds (its
\* count fitting the count field) and byte 1 of the descriptor has bit 4 set
\* exactly when disable-page-out is requested and bit 3 set exactly when
\* force-unit-access is requested.
C18_OptionFlags ==
    (built # NoBuild /\ (built.fua # 0 \/ built.dpo # 0)) =>
        /\ built.cdb_sz = 6 => built.ret = 1
        /\ built.cdb_sz \in {10, 12, 16} =>
            /\ (built.cdb_sz = 10 => built.blocks[1] = 0) => built.ret = 0
            /\ ((built.cdb[1] \div 16) % 2 = 1) <=> (built.dpo # 0)
            /\ ((built.cdb[1] \div 8) % 2 = 1) <=> (built.fua # 0)

\* a 10-byte descriptor built with force-unit-access alone
C18_Witness ==
    /\ built # NoBuild
    /\ built.cdb_sz = 10
    /\ built.fua = 1 /\ built.dpo = 0
    /\ built.start_block = <<0, 0, 4660, 22136>>
    /\ built.blocks = <<0, 255>>
    /\ built.ret = 0

\* C19: every block-transfer command the engine issues is a read: its
\* opcode is the read opcode of its size class (0x08, 0x28, 0xa8 or 0x88)
\* and its direction is from-device; no write opcode is ever sent by sg_read
\* or sg_read_low.
C19_OnlyReadsIssued ==
    (built # NoBuild /\ built.ret = 0) =>
        /\ built.caller = "sg_read_low"
        /\ built.cdb[0] = (CASE built.cdb_sz = 6 -> 8
                             [] built.cdb_sz = 10 -> 40
                             [] built.cdb_sz = 12 -> 168
                             [] built.cdb_sz = 16 -> 136)
        /\ built.cdb[0] \notin {10, 42, 170, 138}
        /\ built.dxfer_direction = "SG_DXFER_FROM_DEV"

\* a 12-byte descriptor that was built and handed to the device
C19_Witness ==
    /\ built # NoBuild
    /\ built.cdb_sz = 12
    /\ built.start_block = <<0, 0, 0, 100>>
    /\ built.blocks = <<0, 1>>
    /\ built.ret = 0
    /\ built.dxfer_direction = "SG_DXFER_FROM_DEV"

(***************************************************************************)
(* Retries of the first-path transfer (checked under Spec)                 *)
(***************************************************************************)
\* C20 (as stated): when a transfer reports NotReady or an unclassified
\* Other failure, sg_read repeats the transfer on the same sub-range while
\* the per-call retry budget has retries left (decrementing the budget and
\* incrementing retries-attempted each time), and only fails terminally once
\* the budget is exhausted.
C20_NotReadyAndOtherRetried ==
    [][(/\ pc = "xfer"
        /\ nXfer' = nXfer + 1
        /\ last_res' \in {SG_LIB_CAT_NOT_READY, SG_LIB_CAT_OTHER}
        /\ retries_tmp > 0)
       => (/\ pc' = "xfer"
           /\ retries_tmp' = retries_tmp - 1
           /\ num_retries' = num_retries + 1
           /\ UNCHANGED cursor)]_vars

\* C20 (amended): a transfer that reports NotReady ends the call at once
\* with that result, whatever is left of the retry budget, and neither the
\* budget nor retries-attempted changes; a transfer that reports an
\* unclassified Other failure is repeated on the same sub-range while the
\* per-call retry budget has retries left (the budget goes down by one and
\* retries-attempted up by one each time) and ends the call with that
\* failure once the budget is exhausted.
C20_OtherRetriedNotReadyEnds ==
    [][(pc = "xfer" /\ nXfer' = nXfer + 1) =>
        /\ last_res' = SG_LIB_CAT_NOT_READY =>
            /\ pc' = "done"
            /\ result' = SG_LIB_CAT_NOT_READY
            /\ retries_tmp' = retries_tmp
            /\ num_retries' = num_retries
        /\ last_res' = SG_LIB_CAT_OTHER =>
            IF retries_tmp > 0
            THEN /\ pc' = "xfer"
                 /\ retries_tmp' = retries_tmp - 1
                 /\ num_retries' = num_retries + 1
                 /\ UNCHANGED cursor
            ELSE /\ pc' = "done"
                 /\ result' = SG_LIB_CAT_OTHER
                 /\ retries_tmp' = retries_tmp
                 /\ num_retries' = num_retries]_vars

\* the first transfer of a call reported NotReady with a retry left, and the
\* call is over
C20_Witness ==
    /\ pc = "done"
    /\ nXfer = 1
    /\ last_res = SG_LIB_CAT_NOT_READY
    /\ result = SG_LIB_CAT_NOT_READY
    /\ retries_tmp > 0

(***************************************************************************)
(* Properties of the medium-error path (checked under Spec)                *)
(***************************************************************************)
\* the error LBA the step's transfer reported lies outside [lba, lba + blks)
C21_Outside ==
    err_lba'.hi > 0 \/ err_lba'.lo < lba \/ err_lba'.lo >= lba + blks

\* C21 (as stated): when a medium error carries an error LBA outside
\* [current start, current start + remaining), sg_read goes to terminal
\* failure: it issues no further device transfer in that call, and with
\* continue-on-error = 0 the outcome is MediumHard.
C21_OutsideAlwaysEndsCall ==
    [][(/\ pc = "xfer" /\ nXfer' = nXfer + 1
        /\ last_res' = SG_LIB_CAT_MEDIUM_HARD_WITH_INFO
        /\ C21_Outside) =>
          /\ pc' = "done"
          /\ ifp.coe = 0 => result' = SG_LIB_CAT_MEDIUM_HARD]_vars

\* C21 (amended): when a medium error carries an error LBA outside [current
\* start, current start + remaining) and the per-call retry budget is
\* exhausted, sg_read goes to terminal failure: it issues no further device
\* transfer in that call, and with continue-on-error = 0 the outcome is
\* MediumHard with nothing stored to blocks-read.  While the budget has a
\* retry left the transfer is repeated on the same sub-range instead,
\* wherever the error LBA lies.
C21_OutsideEndsCallAfterRetries ==
    [][(/\ pc = "xfer" /\ nXfer' = nXfer + 1
        /\ last_res' = SG_LIB_CAT_MEDIUM_HARD_WITH_INFO
        /\ C21_Outside) =>
          IF retries_tmp > 0
          THEN /\ pc' = "xfer"
               /\ retries_tmp' = retries_tmp - 1
               /\ UNCHANGED cursor
          ELSE /\ pc' = "done"
               /\ ifp.coe = 0 =>
                    /\ result' = SG_LIB_CAT_MEDIUM_HARD
                    /\ UNCHANGED <<blks_read, blks_written>>]_vars

\* a call under coe = 0 and without retries, ended by a medium error whose
\* error LBA is the block just after the requested range
C21_Witness ==
    /\ pc = "done" /\ nXfer = 1 /\ ifp0.coe = 0 /\ ifp0.retries = 0
    /\ last_res = SG_LIB_CAT_MEDIUM_HARD_WITH_INFO
    /\ err_lba = Addr(0, from_block + blocks)
    /\ blocks > 1
    /\ result = SG_LIB_CAT_MEDIUM_HARD

\* the error LBA the step's transfer reported lies in [lba, lba + blks)
C22_Inside ==
    err_lba'.hi = 0 /\ err_lba'.lo >= lba /\ err_lba'.lo < lba + blks

\* C22 (as stated): after a medium error with error LBA e inside the current
\* sub-range [lba, lba + blks), sg_read issues exactly one more transfer,
\* covering the blocks [lba, e), when e > lba and none when e = lba (the next
\* thing it does is that transfer, or the handling of block e).
C22_RereadFollowsAtOnce ==
    [][(/\ pc = "xfer" /\ nXfer' = nXfer + 1
        /\ last_res' = SG_LIB_CAT_MEDIUM_HARD_WITH_INFO
        /\ C22_Inside) =>
          IF err_lba'.lo > lba
          THEN pc' = "reread" /\ lba' = lba /\ bp' = bp /\ blks' = err_lba'.lo - lba
          ELSE pc' \in {"done", "long1"} \/ (pc' = "xfer" /\ lba' = lba + 1)]_vars

\* C22 (amended): after a medium error with error LBA e inside the current
\* sub-range [lba, lba + blks), met with the per-call retry budget exhausted,
\* sg_read issues exactly one more transfer, covering the blocks [lba, e),
\* when e > lba and none when e = lba; when that transfer succeeds the e - lba
\* blocks hold device data and are added to the blocks read, and the cursor
\* (lba and buffer position) stands at e: with coe = 0 the call returns
\* MediumHard with blocks-read = e - from_block, otherwise (bs >= 32) block e
\* is the one zero-filled or handed to the extended read.  While the budget
\* has a retry left the whole sub-range is transferred again instead.
C22_RereadBeforeErrorLba ==
    [][/\ (/\ pc = "xfer" /\ nXfer' = nXfer + 1
           /\ last_res' = SG_LIB_CAT_MEDIUM_HARD_WITH_INFO
           /\ C22_Inside) =>
             IF retries_tmp > 0
             THEN pc' = "xfer" /\ UNCHANGED cursor
             ELSE IF err_lba'.lo > lba
             THEN pc' = "reread" /\ lba' = lba /\ bp' = bp /\ blks' = err_lba'.lo - lba
             ELSE pc' \in {"done", "long1"} \/ (pc' = "xfer" /\ lba' = lba + 1)
       /\ (pc = "reread" /\ nXfer' = nXfer + 1) =>
             /\ pc' # "reread"
             /\ last_res' = 0 =>
                  LET e == lba + blks
                      at == e - from_block
                  IN  /\ \A i \in DOMAIN buff :
                            (i >= xferred /\ i < at) => buff'[i] = "data"
                      /\ ifp.coe = 0 =>
                            /\ pc' = "done" /\ result' = SG_LIB_CAT_MEDIUM_HARD
                            /\ blks_written' /\ blks_read' = at
                      /\ (ifp.coe # 0 /\ bs >= MIN_READ_LONG_LEN) =>
                            IF pc' = "long1"
                            THEN xferred' = at /\ lba' = e /\ bp' = at * bs
                            ELSE /\ xferred' = at + 1 /\ lba' = e + 1
                                 /\ bp' = (at + 1) * bs
                                 /\ buff'[at] = "zero"]_vars

\* the block before the error LBA was read again and the extended read of the
\* failing block is next: the cursor stands at the error LBA
C22_Witness ==
    /\ pc = "long1" /\ nXfer = 2 /\ last_res = 0
    /\ xferred = 1 /\ lba = from_block + 1 /\ bp = bs
    /\ buff[0] = "data"

C24_ExtendedReadLengths ==
    [][LET at == bp \div bs
           left == /\ pc' \in {"xfer", "done"}
                   /\ read_long_blk_inc' = read_long_blk_inc
                   /\ lba' = lba + 1
                   /\ IF read_longs' = read_longs + 1
                      THEN buff'[at] = "long"
                      ELSE read_longs' = read_longs /\ buff'[at] = "zero"
       IN  /\ (pc = "long1" /\ longs' = longs + 1) =>
                /\ long_len' = bs + read_long_blk_inc
                /\ IF pc' = "long2"
                   THEN /\ nl' = bs + read_long_blk_inc - offset'
                        /\ nl' >= 32 /\ nl' <= 2 * bs
                        /\ read_long_blk_inc' = nl' - bs
                        /\ lba' = lba
                   ELSE left
           /\ (pc = "long2" /\ longs' = longs + 1) =>
                /\ long_len' = nl
                /\ long_len' = bs + read_long_blk_inc
                /\ left
           /\ longs' # longs => (longs' = longs + 1 /\ pc \in {"long1", "long2"})
           /\ pc' = "long2" => pc = "long1"
           /\ (pc' = "long1" /\ pc # "long1") => pc \in {"xfer", "reread"}
           /\ read_long_blk_inc' # read_long_blk_inc => (pc = "long1" /\ pc' = "long2")]_vars

\* two blocks failed in one call: the first took two extended reads, of 72
\* and then 128 bytes, which left the increment at 64; the extended read of
\* the second block asked for 64 + 64 bytes
C24_Witness ==
    /\ pc = "done" /\ blocks = 2 /\ bs = 64 /\ xferred = 2
    /\ longs = 3
    /\ read_long_blk_inc = 64
    /\ long_len = 128
    /\ nXfer = 2

(***************************************************************************)
(* Properties of the ceilings, the retry budget and the counters           *)
(***************************************************************************)
\* C25: over a whole run max_uas and max_aborted never grow: each UNIT
\* ATTENTION (respectively ABORTED COMMAND) result of the first transfer of a
\* sub-range lowers its own ceiling by one and leaves the other alone, and no
\* other step, the start of a new sg_read call included, changes either
\* ceiling.
C25_CeilingsOnlyGoDown ==
    [][LET first == pc = "xfer" /\ nXfer' = nXfer + 1
           ua == first /\ last_res' = SG_LIB_CAT_UNIT_ATTENTION
           ab == first /\ last_res' = SG_LIB_CAT_ABORTED_COMMAND
       IN  /\ max_uas' <= max_uas
           /\ max_aborted' <= max_aborted
           /\ max_uas' = (IF ua THEN max_uas - 1 ELSE max_uas)
           /\ max_aborted' = (IF ab THEN max_aborted - 1 ELSE max_aborted)]_vars

\* a second call starts with both ceilings as the first call left them, each
\* one lower than at the start of the run
C25_Witness ==
    /\ calls = 2 /\ pc = "xfer" /\ nXfer = 0
    /\ max_uas = Min(MAX_UNIT_ATTENTIONS, UasLeft) - 1
    /\ max_aborted = Min(MAX_ABORTED_CMDS, AbortedLeft) - 1

\* C26: within one sg_read call the retries taken after a medium error with
\* an error address, a medium error without one and any other retryable
\* failure all come out of retries_tmp: the number taken so far is
\* ifp->retries - retries_tmp, it lies between 0 and ifp->retries, num_retries
\* grows exactly with it, and every new call starts again with
\* retries_tmp = ifp->retries.
C26_RetryBudget ==
    [][/\ retries_tmp >= 0 /\ retries_tmp <= ifp0.retries
       /\ retries_tmp' >= 0 /\ retries_tmp' <= ifp0'.retries
       /\ IF calls' = calls + 1
          THEN retries_tmp' = ifp.retries /\ num_retries' = num_retries
          ELSE /\ retries_tmp' \in {retries_tmp, retries_tmp - 1}
               /\ num_retries' - num_retries = retries_tmp - retries_tmp'
               /\ num_retries' - nretr0 = ifp0.retries - retries_tmp'
               /\ (retries_tmp' # retries_tmp =>
                     /\ pc = "xfer" /\ pc' = "xfer" /\ nXfer' = nXfer + 1
                     /\ last_res' \notin {0, -1, -2, SG_LIB_SYNTAX_ERROR,
                                          SG_LIB_CAT_NOT_READY,
                                          SG_LIB_CAT_UNIT_ATTENTION,
                                          SG_LIB_CAT_ABORTED_COMMAND})]_vars

\* the second call has used up a budget of its own after the first call had
\* used up its budget
C26_Witness ==
    /\ calls = 2 /\ ifp0.retries = 1 /\ nretr0 = 1
    /\ retries_tmp = 0 /\ num_retries = 2 /\ nXfer = 1 /\ pc = "xfer"

\* C27: every sg_read_low call that returns SG_LIB_CAT_MEDIUM_HARD or
\* SG_LIB_CAT_MEDIUM_HARD_WITH_INFO (from a medium error with or without an
\* error address, or from an MMC ILLEGAL REQUEST taken as one) has added
\* exactly one to unrecovered_errs: whatever the device answers to the
\* transfer that opens a run, sg_read_low reports an increment of one, and
\* over the step of any transfer the counter is one higher, less the one
\* that sg_read takes back when it retries.
C27_Medium == {SG_LIB_CAT_MEDIUM_HARD, SG_LIB_CAT_MEDIUM_HARD_WITH_INFO}

C27_MediumCountedOnce ==
    [][/\ (calls = 0 /\ calls' = 1) =>
            \A d \in DevResponses(lba', blks') :
               LET r == sg_read_low(d, ifp, blks', lba', Addr0)
               IN  r.res \in C27_Medium => r.unrec = 1 /\ r.recov = 0 /\ r.issued
       /\ (nXfer' = nXfer + 1 /\ last_res' \in C27_Medium) =>
            /\ unrecovered_errs' + (retries_tmp - retries_tmp') = unrecovered_errs + 1
            /\ recovered_errs' = recovered_errs]_vars

\* a call on an MMC device has ended on a medium error without an error
\* address, counted once on top of the one error counted by the call before
C27_Witness ==
    /\ pc = "done" /\ ifp0.pdt = PDT_MMC /\ ifp0.retries = 0
    /\ calls = 2 /\ unrec0 = 1 /\ unrecovered_errs = 2
    /\ nXfer = 1 /\ last_res = SG_LIB_CAT_MEDIUM_HARD

\* C28: a transfer that ends with SG_LIB_CAT_RECOVERED comes back from
\* sg_read_low as 0 and sg_read goes on as after a clean one: recovered_errs
\* grows by exactly one, the blocks of the sub-range hold the device's data
\* and count as read (a first transfer ends the call with 0 and the whole
\* count read; a second transfer adds its blocks to xferred), and
\* unrecovered_errs, retries_tmp, num_retries, max_uas and max_aborted keep
\* their values.
C28_RecoveredLikeClean ==
    [][/\ (calls = 0 /\ calls' = 1) =>
            \A d \in DevResponses(lba', blks') :
               LET r == sg_read_low(d, ifp, blks', lba', Addr0)
               IN  (r.issued /\ d.io = "ok" /\ d.cat = SG_LIB_CAT_RECOVERED) =>
                      r.res = 0 /\ r.recov = 1 /\ r.unrec = 0
       /\ recovered_errs' # recovered_errs =>
            /\ recovered_errs' = recovered_errs + 1
            /\ nXfer' = nXfer + 1 /\ last_res' = 0
            /\ UNCHANGED <<unrecovered_errs, retries_tmp, num_retries, max_uas,
                           max_aborted, ifp>>
            /\ \A i \in DOMAIN buff :
                  (i >= xferred /\ i < xferred + blks) => buff'[i] = "data"
            /\ IF pc = "xfer"
               THEN /\ pc' = "done" /\ result' = 0
                    /\ blks_written' /\ blks_read' = blocks
               ELSE /\ pc = "reread"
                    /\ xferred' >= xferred + blks
                    /\ pc' = "done" =>
                         \/ ifp.coe = 0 /\ result' = ret /\ blks_read' = xferred + blks
                         \/ ifp.coe # 0 /\ bs < MIN_READ_LONG_LEN
                         \/ result' = 0 /\ blks_read' = blocks]_vars

\* three transfers: a first call whose only transfer ended as recovered, then
\* in the second call a medium error at the second block and the re-read of
\* the first block ended as recovered; the failing block was zero-filled
\* and the call returned 0
C28_Witness ==
    /\ calls = 2 /\ recovered_errs = 2 /\ unrecovered_errs = 1
    /\ nXfer = 2 /\ last_res = 0 /\ buff[0] = "data" /\ buff[1] = "zero"
    /\ pc = "done" /\ result = 0 /\ blks_read = 2

(***************************************************************************)
(* Termination                                                             *)
(***************************************************************************)
\* C29: every sg_read call returns: whatever the count, the retry count and
\* the results the device gives, a call that has started reaches its return
\* (pc = "done") after finitely many transfers, provided every device call
\* comes back.
\* Every step inside a call returns, or takes one from retries_tmp, or
\* lowers a ceiling that stays above zero, or moves on within the iteration
\* (transfer, second transfer, extended read, second extended read) or to a
\* later block, and xferred never passes the count.
C29_EveryCallReturns ==
    /\ (pc \notin {"idle", "done"}) ~> (pc = "done")
    /\ [][LET stage(p) == CASE p = "xfer" -> 0 [] p = "reread" -> 1
                             [] p = "long1" -> 2 [] p = "long2" -> 3
                             [] OTHER -> 4
          IN  pc \notin {"idle", "done"} =>
                \/ pc' = "done"
                \/ /\ pc' = pc /\ xferred' = xferred
                   /\ \/ retries_tmp' < retries_tmp /\ retries_tmp' >= 0
                      \/ max_uas' < max_uas /\ max_uas' > 0
                      \/ max_aborted' < max_aborted /\ max_aborted' > 0
                \/ /\ stage(pc') > stage(pc)
                   /\ xferred' >= xferred /\ xferred' < blocks
                   /\ UNCHANGED <<retries_tmp, max_uas, max_aborted>>
                \/ /\ pc' = "xfer"
                   /\ xferred' > xferred /\ xferred' < blocks
                   /\ UNCHANGED <<retries_tmp, max_uas, max_aborted>>]_vars

\* a call that repeated after a unit attention and after an aborted command,
\* took its retry, read one block again before a failing block, made an
\* extended read, and returned
C29_Witness ==
    /\ cmds < 0 /\ pc = "done" /\ calls = 1 /\ blocks = 2 /\ xferred = 2
    /\ max_uas < Min(MAX_UNIT_ATTENTIONS, UasLeft)
    /\ max_aborted < Min(MAX_ABORTED_CMDS, AbortedLeft)
    /\ ifp.retries = 1 /\ retries_tmp = 0
    /\ buff[0] = "data" /\ read_longs = 1

(***************************************************************************)
(* The device context across a call                                        *)
(***************************************************************************)
\* C30 as stated: when sg_read has returned, whatever the outcome, the
\* context's coe, retries, cdbsz, fua, dpo and pdt are what they were when it
\* was called.  sg_read stores 0 to ifp->coe when a transfer comes back with
\* SG_LIB_SYNTAX_ERROR and when the second transfer comes back with -1, so
\* the calls after such a one run without continue-on-error.
C30_ContextUnchanged == pc = "done" => ifp = ifp0

(***************************************************************************)
(* Medium errors under continue-on-error                                   *)
(***************************************************************************)
C31_CleanOrMedium == {0, SG_LIB_CAT_MEDIUM_HARD, SG_LIB_CAT_MEDIUM_HARD_WITH_INFO}

\* the call returns 0 with the whole count in *blks_readp
C31_Success == result' = 0 /\ blks_written' /\ blks_read' = blocks

\* the ways a call with ifp->coe >= 1 ends that are not the doing of a clean
\* or medium-error transfer: a transfer with another result, a block size
\* below 32, and sg_memalign returning NULL
C31_OtherEnd ==
    \/ pc \in {"xfer", "reread"} /\ last_res' \notin C31_CleanOrMedium
    \/ bs < MIN_READ_LONG_LEN /\ result' = RES_OTHER_ERR
    \/ pc = "long1" /\ longs' = longs /\ result' = RES_OTHER_ERR

\* C31 as stated: with ifp->coe >= 1 a call in which every transfer comes
\* back clean or with a medium error, on the first or on the second transfer
\* of a sub-range, returns 0 with *blks_readp = blocks.
C31_MediumAlwaysSuccess ==
    [][(pc \notin {"idle", "done"} /\ pc' = "done" /\ ifp.coe >= 1) =>
          C31_Success \/ C31_OtherEnd]_vars

\* C31: with ifp->coe >= 1 and bs >= 32 a call in which every transfer comes
\* back clean, or with a medium error on the first transfer of a sub-range,
\* returns 0 with *blks_readp = blocks.  A medium error on the second
\* transfer (the one of the blocks before the error LBA) ends the call with
\* SG_LIB_CAT_MEDIUM_HARD, those blocks zero-filled and *blks_readp =
\* xferred + blks.
C31_MediumSuccessOnFirstTransfer ==
    [][(pc \notin {"idle", "done"} /\ pc' = "done" /\ ifp.coe >= 1) =>
          \/ C31_Success
          \/ C31_OtherEnd
          \/ /\ pc = "reread"
             /\ last_res' \in {SG_LIB_CAT_MEDIUM_HARD, SG_LIB_CAT_MEDIUM_HARD_WITH_INFO}
             /\ result' = SG_LIB_CAT_MEDIUM_HARD
             /\ blks_written' /\ blks_read' = xferred + blks
             /\ \A i \in DOMAIN buff :
                   (i >= xferred /\ i < xferred + blks) => buff'[i] = "zero"]_vars

\* a retried medium error without an error LBA, then one at the second block,
\* the first block read again cleanly, the second zero-filled: 0 is returned
\* with the whole count
C31_Witness ==
    /\ pc = "done" /\ result = 0 /\ blks_written /\ blks_read = 2 /\ blocks = 2
    /\ ifp.coe >= 1 /\ ifp0.retries = 1 /\ retries_tmp = 0
    /\ nXfer = 3 /\ last_res = 0 /\ unrecovered_errs = unrec0 + 1
    /\ max_uas = uas0 /\ recovered_errs = 0
    /\ buff[0] = "data" /\ buff[1] = "zero"

(***************************************************************************)
(* More properties of the descriptor build (checked under SpecCdb)         *)
(***************************************************************************)
\* C32 as stated: whenever sg_build_scsi_cdb returns 0 for a start block in
\* 0 .. 2^63 - 1 and a count of at least 1, decoding the descriptor gives back
\* the start block and the count; a 10- or 12-byte build does not succeed
\* with a start block of 2^32 or more.  sg_build_scsi_cdb stores the low 32
\* bits of start_block in the 10- and 12-byte forms and returns 0 without
\* looking at the rest.
C32_SuccessDecodesToRequest ==
    (/\ built # NoBuild /\ built.ret = 0
     /\ built.start_block[1] < 32768
     /\ built.blocks # <<0, 0>>) =>
        /\ C16_DecodeStart(built.cdb_sz, built.cdb) = built.start_block
        /\ C16_DecodeCount(built.cdb_sz, built.cdb) = built.blocks
        /\ built.cdb_sz \in {10, 12} =>
              built.start_block[1] = 0 /\ built.start_block[2] = 0

(***************************************************************************)
(* The counters and the caller's *blks_readp                               *)
(***************************************************************************)
\* C33: unrecovered_errs is never negative and never lower than it was when
\* the current call started: the decrement sg_read makes when it repeats a
\* transfer takes back the increment sg_read_low made for that very
\* transfer, so a repeating step leaves the counter where it was.
C33_UnrecoveredNeverDrops ==
    /\ [](unrecovered_errs >= 0 /\ unrecovered_errs >= unrec0)
    /\ [][/\ calls' = calls => unrecovered_errs' >= unrecovered_errs
          /\ calls' = calls + 1 => unrecovered_errs' = unrecovered_errs
          /\ retries_tmp' < retries_tmp =>
                unrecovered_errs' = unrecovered_errs]_vars

\* a second call that has just repeated a failed transfer, with one error
\* counted by the first call: the counter still stands at that one
C33_Witness ==
    /\ calls = 2 /\ unrec0 = 1 /\ unrecovered_errs = 1
    /\ ifp0.retries = 1 /\ retries_tmp = 0 /\ num_retries = nretr0 + 1
    /\ nXfer = 1 /\ pc = "xfer" /\ last_res = SG_LIB_CAT_OTHER

\* C34 as stated: on every return path of sg_read, the failure results
\* included, a value has been stored to *blks_readp.  sg_read stores to it
\* before `return 0`, before the return that ends a call with ifp->coe = 0
\* after the second transfer, and in err_out when ifp->coe is not 0; the
\* other returns (-2, SG_LIB_CAT_NOT_READY, a used-up max_uas or
\* max_aborted, err_out with ifp->coe = 0, bs < 32, sg_memalign failing)
\* leave it as the caller set it.
C34_BlksReadAlwaysStored == pc = "done" => blks_written

\* C35 as stated: in a pass, the call of sg_read that follows one that
\* returned 0 is for the next window: its start block is the earlier start
\* block plus the earlier count, so no window is read again after a
\* successful read.  The while (1) loop around the call leaves only through
\* `if (res) break`: after a return of 0 it sets first = 0 and calls sg_read
\* again with the same seek and sectors_to_process.
C35_SuccessMovesToNextWindow ==
    [][(/\ rvd'.reads = rvd.reads + 1
        /\ rvd.call.ifp # "none"
        /\ rvd.call.res = 0
        /\ rvd'.call.pass = rvd.call.pass)
       => rvd'.call.from_block = rvd.call.from_block + rvd.call.blocks]_vars

\* C36 as stated: the call made after sg_read returned -2 is for the same
\* start block, for no more blocks than the call that failed, and with the
\* same flags (device context) as that call.  The repeated call is given
\* &iflag where the first was given &oflag.
C36_RepeatSameContext ==
    [][(rvd.pc = "enomem" /\ rvd'.reads = rvd.reads + 1)
       => /\ rvd'.call.from_block = rvd.call.from_block
          /\ rvd'.call.blocks <= rvd.call.blocks
          /\ rvd'.call.ifp = rvd.call.ifp
          /\ FlagsNamed(rvd'.call.ifp) = FlagsNamed(rvd.call.ifp)]_vars

\* C37 as stated: every extended read sg_read issues, in any call of a run
\* and whatever block sizes the calls have, asks for at least 32 bytes and
\* for no more than 2 * bs of the current call, the size of the buffer
\* sg_memalign gave it.  The first extended read of a block asks for
\* bs + read_long_blk_inc without a test, and read_long_blk_inc may have
\* been learned by an earlier call with another bs.
C37_LongLengthWithinBuffer ==
    [][longs' = longs + 1
       => (long_len' >= MIN_READ_LONG_LEN /\ long_len' <= 2 * bs)]_vars

\* C38 as stated: whatever cdb_sz it is given, sg_build_scsi_cdb writes only
\* within the first MAX_SCSI_CDBSZ bytes of the buffer (sg_read_low's rdCmd
\* has that many).  memset(cdbp, 0, cdb_sz) comes before the switch whose
\* default branch rejects the size, so the bytes 0 .. cdb_sz - 1 are written
\* for a rejected size too.
C38_WritesWithinCommandBuffer ==
    built.caller = "sg_read_low"
        => \A i \in DOMAIN built.cdb : i < MAX_SCSI_CDBSZ
====
